---------------------------- MODULE Spec2Model ----------------------------
(***************************************************************************)
(* Two classes of bre_utils: BlockQueue<T>, modelled first, and Buffer     *)
(* (src/breutils/buffer.hpp), modelled in the second part of the module.   *)
(* Each has its own specifications; the variables of the other class stay  *)
(* at fixed values meanwhile.                                              *)
(*                                                                         *)
(* bre::BlockQueue<T> (src/breutil/block_queue.hpp): a bounded FIFO queue  *)
(* guarded by one mutex, with one condition variable for producers and one *)
(* for consumers, and a one-way Close().                                   *)
(*                                                                         *)
(* Every region of code that runs with _mtx held is one atomic action.  A  *)
(* condition_variable::wait(lock, pred) is "evaluate pred under the lock;  *)
(* if it is false, release the lock and block": a blocked thread has       *)
(* pc = "wait", a thread that was notified (or woke spuriously) has        *)
(* pc = "woken" and must take the lock and evaluate pred again, and a      *)
(* thread whose wait_for ran out of time has pc = "timedout" and returns   *)
(* pred() once it has the lock back.                                       *)
(***************************************************************************)
EXTENDS Naturals, Sequences, FiniteSets, Bags, TLC

\* ------------------------------------------------------------- bounds ----
NumThreads == 3     \* threads that call into the queue
TracedThreads == 2  \* threads that call while the histories are recorded
MaxBlocked == 2     \* threads inside calls that have blocked, at a time
MaxItems   == 3     \* values 1..MaxItems are offered to the queue, each once
MaxCap     == 2     \* capacities 0..MaxCap (constructor and SetCapacity)
MaxBatch   == 2     \* longest range of a batch Push, largest maxCount

Threads == 1..NumThreads

\* ------------------------------------------------------------- state -----
VARIABLES
    queue,          \* _queue: the stored elements, head first
    capacity,       \* _capacity
    isClose,        \* _isClose
    pc,             \* per thread: "idle", "wait", "woken", "timedout",
                    \*   "batch", "notifyP", "notifyC"
    op,             \* per thread: the call in progress (items: what is still
                    \*   to be pushed; max: maxCount of a batch Pop, count of
                    \*   a batch Push)
    ret,            \* what the latest step returned to a caller of a push, a
                    \*   pop or Peek (a value, void or an exception); NoRet if
                    \*   the step was no such return
    nextVal,        \* next value a caller will offer
    pushed,         \* history: values in the order their push succeeded
    popped,         \* history: values in the order they were removed by a pop
                    \*   (both since the latest Clear())
    closeSnap,      \* history: the stored sequence when _isClose was set
                    \*   (<<>> after a Clear() of the closed queue)
    record          \* whether ret and the history variables are kept; fixed
                    \*   by the initial state, they never influence the queue

vars == <<queue, capacity, isClose, pc, op, ret, nextVal, pushed, popped,
          closeSnap, record>>

hist == <<pushed, popped, closeSnap>>

\* bre::Buffer (src/breutils/buffer.hpp), modelled in the second part of the
\* module: one Buffer object, a byte being a number.
VARIABLES
    buffer,         \* _buffer: the bytes of the std::vector<char>; the C++
                    \*   index i is position i + 1 of the sequence
    readIndex,      \* _readIndex
    writeIndex,     \* _writeIndex
    content,        \* history: the bytes a consumer has still to read, kept
                    \*   as a plain sequence (back: written, front: read)
    bret            \* what the latest step was, if it was a call of Retrieve,
                    \*   RetrieveAsString, Append, EnsureWritableBytes or
                    \*   Prepend (or a call with undefined behaviour), and
                    \*   what it returned; NoCall after any other step

bufvars == <<buffer, readIndex, writeIndex, content, bret>>

NoCall == [op |-> "none", len |-> 0, data |-> <<>>, res |-> "none", out |-> <<>>]

\* No Buffer object: the state of the buffer variables while the queue runs.
NoBuffer ==
    /\ buffer = <<>>
    /\ readIndex = 0
    /\ writeIndex = 0
    /\ content = <<>>
    /\ bret = NoCall

NoOp == [kind |-> "none", items |-> <<>>, max |-> 0]

NoRet == [op |-> "none", res |-> "none", out |-> <<>>]

\* The record of a return: the call, its result, the elements it hands out.
Return(kind, res, out) ==
    IF record THEN [op |-> kind, res |-> res, out |-> out] ELSE NoRet

\* The values first..first+n-1 as a sequence.
Range(first, n) == [i \in 1..n |-> first + i - 1]

\* ------------------------------------------------- std::queue<T> ---------
\* A push that puts the element at the head.
QueuePushFront(q, x) == <<x>> \o q

QueuePush(q, x) == Append(q, x)

\* A front() that reads the wrong end of the queue.
QueueFrontAtBack(q) == q[Len(q)]

QueueFront(q) == Head(q)

\* The element _queue.back() returns, were it the one at the head.
QueueBackAtFront(q) == q[1]

QueueBack(q) == q[Len(q)]

\* A pop() that leaves the element in place.
QueuePopKeeps(q) == q

QueuePop(q) == Tail(q)

\* ------------------------------------------------- the code's conditions -
\* The producer's predicate with <= for <.
ProducerPredOffByOne == isClose \/ Len(queue) <= capacity

\* [this] { return _isClose || _queue.size() < _capacity; }
ProducerPred == isClose \/ Len(queue) < capacity

\* The consumer's predicate without the closed flag.
ConsumerPredNoClose == queue # <<>>

\* [this] { return _isClose || !_queue.empty(); }
ConsumerPred == isClose \/ queue # <<>>

\* A TryPush that does not look at the closed flag.
TryPushRejectsOnlyFull == Len(queue) >= capacity

\* if (_isClose || _queue.size() >= _capacity) return false;
TryPushRejects == isClose \/ Len(queue) >= capacity

\* A push that does not look at the closed flag after its wait.
PushSeesClosedNever == FALSE

\* if (_isClose) throw / return false;   after the producer's wait
PushSeesClosed == isClose

\* A pop that fails on the closed queue whatever it holds.
PopSeesDrainedWhenClosed == isClose

\* if (_isClose && _queue.empty()) return false;   after the consumer's wait
PopSeesDrained == isClose /\ queue = <<>>

\* if (!_isClose && (_queue.size() + count <= _capacity))
\* A batch Push that wants a free slot left over.
BatchFitsStrict(count) == ~isClose /\ Len(queue) + count < capacity

BatchFits(count) == ~isClose /\ Len(queue) + count <= capacity

\* A SetCapacity that compares with the capacity it is replacing.
SetCapacityWakesStale(n) == Len(queue) < capacity

\* if (_queue.size() < _capacity)   in SetCapacity, _capacity already set to n
SetCapacityWakes(n) == Len(queue) < n

\* ------------------------------------------------- condition variables ---
Producers == {"Push", "TimedPush", "BatchPush"}

Consumers == {"Pop", "TimedPop", "Peek", "BatchPop"}

Timed == {"TimedPush", "TimedPop", "Peek"}

\* The condition variable a call of this kind waits on.
CondOf(kind) == IF kind \in Producers THEN "producer" ELSE "consumer"

Waiting(p, cv) ==
    {u \in Threads : p[u] = "wait" /\ CondOf(op[u].kind) = cv}

Expiring(p, cv) ==
    {u \in Threads : p[u] = "timedout" /\ CondOf(op[u].kind) = cv}

\* notify_one: unblocks one of the threads waiting on cv, if any.  A thread
\* whose timed wait is expiring at that moment may consume the signal
\* (pthread_cond_timedwait), and then no other thread is unblocked.
NotifyOne(p, cv) ==
    IF Waiting(p, cv) = {} THEN {p}
    ELSE {[p EXCEPT ![w] = "woken"] : w \in Waiting(p, cv)}
         \cup (IF Expiring(p, cv) # {} THEN {p} ELSE {})

\* notify_all: unblocks every thread waiting on cv.
NotifyAll(p, cv) ==
    [u \in Threads |-> IF u \in Waiting(p, cv) THEN "woken" ELSE p[u]]

\* ------------------------------------------------- effects on the queue --
\* _queue.push(x) for each x of items, in order.
RECURSIVE PushEach(_, _)
PushEach(q, items) ==
    IF items = <<>> THEN q
    ELSE PushEach(QueuePush(q, Head(items)), Tail(items))

Enqueue(items) ==
    /\ queue' = PushEach(queue, items)
    /\ pushed' = IF record THEN pushed \o items ELSE pushed
    /\ UNCHANGED <<popped, closeSnap>>

\* item = std::move(_queue.front()); _queue.pop();   repeated n times
RECURSIVE TakeFront(_, _)
TakeFront(q, n) ==
    IF n = 0 THEN <<>>
    ELSE <<QueueFront(q)>> \o TakeFront(QueuePop(q), n - 1)

RECURSIVE DropFront(_, _)
DropFront(q, n) == IF n = 0 THEN q ELSE DropFront(QueuePop(q), n - 1)

Dequeue(n) ==
    /\ queue' = DropFront(queue, n)
    /\ popped' = IF record THEN popped \o TakeFront(queue, n) ELSE popped
    /\ UNCHANGED <<pushed, closeSnap>>

\* A call of thread t ends: the thread is idle again.
Done(t, p) == [p EXCEPT ![t] = "idle"]

\* The threads that make calls: all of them, or the first TracedThreads
\* while ret and the histories are recorded.
Callers == IF record THEN 1..TracedThreads ELSE Threads

\* Thread t makes a call.  Idle threads are interchangeable, so the call is
\* made by the idle thread with the least number.
Calls(t) ==
    /\ t \in Callers
    /\ pc[t] = "idle"
    /\ \A u \in 1..(t - 1) : pc[u] # "idle"

Finish(t) == op' = [op EXCEPT ![t] = NoOp]

Min(a, b) == IF a < b THEN a ELSE b

\* ------------------------------------------------------------- Init ------
\* BlockQueue(size_t MaxCapacity): an empty open queue, no thread in a call.
Constructed ==
    /\ queue = <<>>
    /\ capacity \in 0..MaxCap
    /\ isClose = FALSE
    /\ pc = [t \in Threads |-> "idle"]
    /\ op = [t \in Threads |-> NoOp]
    /\ ret = NoRet
    /\ nextVal = 1
    /\ pushed = <<>>
    /\ popped = <<>>
    /\ closeSnap = <<>>
    /\ NoBuffer

Init == Constructed /\ record = TRUE

\* The same queue without the history, for the properties of its behaviours.
LiveInit == Constructed /\ record = FALSE

\* ------------------------------------------------- blocking and returning -
\* The threads other than t whose call has blocked and has not returned.
InBlockingCall(t) ==
    {u \in Threads \ {t} : pc[u] \in {"wait", "woken", "timedout", "batch"}}

\* Thread t may become one more of them.
MayBlock(t) == Cardinality(InBlockingCall(t)) < MaxBlocked

\* wait(lock, pred) found pred false: release the lock and block.
Block(t, o) ==
    /\ MayBlock(t)
    /\ pc' = [pc EXCEPT ![t] = "wait"]
    /\ op' = [op EXCEPT ![t] = o]
    /\ ret' = NoRet
    /\ UNCHANGED <<queue, hist>>

\* The call returns res without touching the queue and without notifying.
ReturnOnly(t, kind, res, out) ==
    /\ pc' = Done(t, pc)
    /\ Finish(t)
    /\ ret' = Return(kind, res, out)
    /\ UNCHANGED <<queue, hist>>

\* ------------------------------------------------- producers -------------
\* bool TryPush(const T&) / TryPush(T&&)
TryPush(t) ==
    /\ Calls(t)
    /\ nextVal <= MaxItems
    /\ nextVal' = nextVal + 1
    /\ IF TryPushRejects
       THEN ReturnOnly(t, "TryPush", "false", <<>>)
       ELSE /\ Enqueue(<<nextVal>>)
            /\ pc' \in NotifyOne(pc, "consumer")
            /\ ret' = Return("TryPush", "true", <<>>)
            /\ UNCHANGED op
    /\ UNCHANGED <<capacity, isClose, record>>

\* A Push that waits once, without the predicate: whatever unblocks it, it
\* goes on as if the queue had room.
PushAttemptSingleWait(t, o) ==
    IF ~ProducerPred /\ pc[t] # "woken" THEN Block(t, o)
    ELSE IF PushSeesClosed
    THEN ReturnOnly(t, "Push", "throw", <<>>)
    ELSE /\ Enqueue(o.items)
         /\ pc' \in NotifyOne(Done(t, pc), "consumer")
         /\ Finish(t)
         /\ ret' = Return("Push", "void", <<>>)

\* void Push(const T&) / Push(T&&): from the wait to the end, lock held.
PushAttempt(t, o) ==
    IF ~ProducerPred THEN Block(t, o)
    ELSE IF PushSeesClosed
    THEN ReturnOnly(t, "Push", "throw", <<>>)
    ELSE /\ Enqueue(o.items)
         /\ pc' \in NotifyOne(Done(t, pc), "consumer")
         /\ Finish(t)
         /\ ret' = Return("Push", "void", <<>>)

\* A timed Push that goes on waiting when its timeout has run out.
TimedPushAttemptOutwaits(t, o, expired) ==
    IF ~ProducerPred
    THEN Block(t, o)
    ELSE IF PushSeesClosed
    THEN ReturnOnly(t, "TimedPush", "false", <<>>)
    ELSE /\ Enqueue(o.items)
         /\ pc' \in NotifyOne(Done(t, pc), "consumer")
         /\ Finish(t)
         /\ ret' = Return("TimedPush", "true", <<>>)

\* bool Push(item, timeout): expired is TRUE when wait_for has run out of
\* time, and then the call returns false unless the predicate holds.
TimedPushAttempt(t, o, expired) ==
    IF ~ProducerPred
    THEN IF expired THEN ReturnOnly(t, "TimedPush", "false", <<>>)
         ELSE Block(t, o)
    ELSE IF PushSeesClosed
    THEN ReturnOnly(t, "TimedPush", "false", <<>>)
    ELSE /\ Enqueue(o.items)
         /\ pc' \in NotifyOne(Done(t, pc), "consumer")
         /\ Finish(t)
         /\ ret' = Return("TimedPush", "true", <<>>)

\* bool Push(InputIt first, InputIt last), the part under the lock_guard and,
\* for a range the loop below it does not enter, the return after it.
BatchPushFirst(t, o) ==
    IF BatchFits(Len(o.items))
    THEN /\ Enqueue(o.items)
         /\ pc' = NotifyAll(pc, "consumer")
         /\ ret' = Return("BatchPush", "true", <<>>)
         /\ UNCHANGED op
    ELSE IF o.items = <<>>
    THEN ReturnOnly(t, "BatchPush", "true", <<>>)
    ELSE /\ MayBlock(t)
         /\ pc' = [pc EXCEPT ![t] = "batch"]
         /\ op' = [op EXCEPT ![t] = o]
         /\ ret' = NoRet
         /\ UNCHANGED <<queue, hist>>

\* A fallback loop that walks the range from its last element to its first.
BatchPushAttemptBackwards(t, o) ==
    LET n == Len(o.items) IN
    IF ~ProducerPred THEN Block(t, o)
    ELSE IF PushSeesClosed
    THEN ReturnOnly(t, "BatchPush", "throw", <<>>)
    ELSE /\ Enqueue(<<o.items[n]>>)
         /\ IF n = 1
            THEN /\ pc' \in NotifyOne(Done(t, pc), "consumer")
                 /\ Finish(t)
                 /\ ret' = Return("BatchPush", "true", <<>>)
            ELSE /\ pc' \in NotifyOne([pc EXCEPT ![t] = "batch"], "consumer")
                 /\ op' = [op EXCEPT ![t] = [o EXCEPT !.items = SubSeq(o.items, 1, n - 1)]]
                 /\ ret' = NoRet

\* One round of the loop "result = Push(*it)": Push(const T&) for the next
\* element of the range.  Its exception leaves the batch Push; a Push that
\* returns lets the loop go on, and after the last one the call returns true.
BatchPushAttempt(t, o) ==
    IF ~ProducerPred THEN Block(t, o)
    ELSE IF PushSeesClosed
    THEN ReturnOnly(t, "BatchPush", "throw", <<>>)
    ELSE /\ Enqueue(<<Head(o.items)>>)
         /\ IF Tail(o.items) = <<>>
            THEN /\ pc' \in NotifyOne(Done(t, pc), "consumer")
                 /\ Finish(t)
                 /\ ret' = Return("BatchPush", "true", <<>>)
            ELSE /\ pc' \in NotifyOne([pc EXCEPT ![t] = "batch"], "consumer")
                 /\ op' = [op EXCEPT ![t] = [o EXCEPT !.items = Tail(o.items)]]
                 /\ ret' = NoRet

\* A TryPop that gives up on a closed queue, as the pushes do.
TryPopGivesUpWhenClosed(t) ==
    /\ Calls(t)
    /\ IF queue = <<>> \/ isClose
       THEN ReturnOnly(t, "TryPop", "nullopt", <<>>)
       ELSE /\ Dequeue(1)
            /\ pc' \in NotifyOne(pc, "producer")
            /\ ret' = Return("TryPop", "value", TakeFront(queue, 1))
            /\ UNCHANGED op
    /\ UNCHANGED <<capacity, isClose, nextVal, record>>

\* ------------------------------------------------- consumers -------------
\* std::optional<T> TryPop()
TryPop(t) ==
    /\ Calls(t)
    /\ IF queue = <<>>
       THEN ReturnOnly(t, "TryPop", "nullopt", <<>>)
       ELSE /\ Dequeue(1)
            /\ pc' \in NotifyOne(pc, "producer")
            /\ ret' = Return("TryPop", "value", TakeFront(queue, 1))
            /\ UNCHANGED op
    /\ UNCHANGED <<capacity, isClose, nextVal, record>>

\* A Pop that takes the element and notifies nobody.
PopAttemptNoNotify(t, o) ==
    IF ~ConsumerPred THEN Block(t, o)
    ELSE IF PopSeesDrained
    THEN ReturnOnly(t, "Pop", "false", <<>>)
    ELSE /\ Dequeue(1)
         /\ pc' = Done(t, pc)
         /\ Finish(t)
         /\ ret' = Return("Pop", "true", TakeFront(queue, 1))

\* bool Pop(T&)
PopAttempt(t, o) ==
    IF ~ConsumerPred THEN Block(t, o)
    ELSE IF PopSeesDrained
    THEN ReturnOnly(t, "Pop", "false", <<>>)
    ELSE /\ Dequeue(1)
         /\ pc' \in NotifyOne(Done(t, pc), "producer")
         /\ Finish(t)
         /\ ret' = Return("Pop", "true", TakeFront(queue, 1))

\* A timed Pop that waits once and does not look at the predicate again: a
\* wake-up that finds the open queue empty makes it return false.
TimedPopAttemptSingleWait(t, o, expired) ==
    IF ~ConsumerPred
    THEN IF expired \/ pc[t] = "woken"
         THEN ReturnOnly(t, "TimedPop", "false", <<>>)
         ELSE Block(t, o)
    ELSE IF PopSeesDrained
    THEN ReturnOnly(t, "TimedPop", "false", <<>>)
    ELSE /\ Dequeue(1)
         /\ pc' \in NotifyOne(Done(t, pc), "producer")
         /\ Finish(t)
         /\ ret' = Return("TimedPop", "true", TakeFront(queue, 1))

\* bool Pop(T&, int timeout_ms)
TimedPopAttempt(t, o, expired) ==
    IF ~ConsumerPred
    THEN IF expired THEN ReturnOnly(t, "TimedPop", "false", <<>>)
         ELSE Block(t, o)
    ELSE IF PopSeesDrained
    THEN ReturnOnly(t, "TimedPop", "false", <<>>)
    ELSE /\ Dequeue(1)
         /\ pc' \in NotifyOne(Done(t, pc), "producer")
         /\ Finish(t)
         /\ ret' = Return("TimedPop", "true", TakeFront(queue, 1))

\* A Peek that takes the element it shows out of the queue.
PeekAttemptRemoves(t, o, expired) ==
    IF ~ConsumerPred
    THEN IF expired THEN ReturnOnly(t, "Peek", "false", <<>>)
         ELSE Block(t, o)
    ELSE IF PopSeesDrained
    THEN ReturnOnly(t, "Peek", "false", <<>>)
    ELSE /\ Dequeue(1)
         /\ pc' = Done(t, pc)
         /\ Finish(t)
         /\ ret' = Return("Peek", "true", TakeFront(queue, 1))

\* bool Peek(T&, int timeout_ms)
PeekAttempt(t, o, expired) ==
    IF ~ConsumerPred
    THEN IF expired THEN ReturnOnly(t, "Peek", "false", <<>>)
         ELSE Block(t, o)
    ELSE IF PopSeesDrained
    THEN ReturnOnly(t, "Peek", "false", <<>>)
    ELSE ReturnOnly(t, "Peek", "true", <<QueueFront(queue)>>)

\* while (!_queue.empty() && count < maxCount) ... ++count;
\* A batch Pop that drains the queue, whatever maxCount is.
BatchCountIgnoresMax(q, maxCount) == Len(q)

BatchCount(q, maxCount) == Min(Len(q), maxCount)

\* size_t Pop(OutputIt dest, size_t maxCount)
BatchPopAttempt(t, o) ==
    IF ~ConsumerPred THEN Block(t, o)
    ELSE /\ Dequeue(BatchCount(queue, o.max))
         /\ pc' = IF BatchCount(queue, o.max) > 0
                  THEN NotifyAll(Done(t, pc), "producer")
                  ELSE Done(t, pc)
         /\ Finish(t)
         /\ ret' = Return("BatchPop", "count", TakeFront(queue, BatchCount(queue, o.max)))

\* ------------------------------------------------- calls that may block --
Push(t) ==
    /\ Calls(t)
    /\ nextVal <= MaxItems
    /\ nextVal' = nextVal + 1
    /\ PushAttempt(t, [kind |-> "Push", items |-> <<nextVal>>, max |-> 0])
    /\ UNCHANGED <<capacity, isClose, record>>

TimedPush(t) ==
    /\ Calls(t)
    /\ nextVal <= MaxItems
    /\ nextVal' = nextVal + 1
    /\ TimedPushAttempt(t, [kind |-> "TimedPush", items |-> <<nextVal>>, max |-> 0], FALSE)
    /\ UNCHANGED <<capacity, isClose, record>>

BatchPush(t) ==
    /\ Calls(t)
    /\ \E n \in 0..MaxBatch :
          /\ nextVal + n <= MaxItems + 1
          /\ nextVal' = nextVal + n
          /\ BatchPushFirst(t, [kind |-> "BatchPush", items |-> Range(nextVal, n), max |-> n])
    /\ UNCHANGED <<capacity, isClose, record>>

Pop(t) ==
    /\ Calls(t)
    /\ PopAttempt(t, [kind |-> "Pop", items |-> <<>>, max |-> 0])
    /\ UNCHANGED <<capacity, isClose, nextVal, record>>

TimedPop(t) ==
    /\ Calls(t)
    /\ TimedPopAttempt(t, [kind |-> "TimedPop", items |-> <<>>, max |-> 0], FALSE)
    /\ UNCHANGED <<capacity, isClose, nextVal, record>>

Peek(t) ==
    /\ Calls(t)
    /\ PeekAttempt(t, [kind |-> "Peek", items |-> <<>>, max |-> 0], FALSE)
    /\ UNCHANGED <<capacity, isClose, nextVal, record>>

BatchPop(t) ==
    /\ Calls(t)
    /\ \E m \in 0..MaxBatch :
          BatchPopAttempt(t, [kind |-> "BatchPop", items |-> <<>>, max |-> m])
    /\ UNCHANGED <<capacity, isClose, nextVal, record>>

\* ------------------------------------------------- waits -----------------
\* The timeout of a wait_for runs out while the thread is blocked.
Timeout(t) ==
    /\ pc[t] = "wait"
    /\ op[t].kind \in Timed
    /\ pc' = [pc EXCEPT ![t] = "timedout"]
    /\ ret' = NoRet
    /\ UNCHANGED <<queue, capacity, isClose, op, nextVal, hist, record>>

\* A condition variable may unblock a waiting thread without a notify.
SpuriousWake(t) ==
    /\ pc[t] = "wait"
    /\ pc' = [pc EXCEPT ![t] = "woken"]
    /\ ret' = NoRet
    /\ UNCHANGED <<queue, capacity, isClose, op, nextVal, hist, record>>

\* An unblocked thread has the lock again: the wait evaluates its predicate
\* and the call goes on from there.
Resume(t) ==
    /\ pc[t] \in {"woken", "timedout"}
    /\ CASE op[t].kind = "Push"      -> PushAttempt(t, op[t])
         [] op[t].kind = "TimedPush" -> TimedPushAttempt(t, op[t], pc[t] = "timedout")
         [] op[t].kind = "BatchPush" -> BatchPushAttempt(t, op[t])
         [] op[t].kind = "Pop"       -> PopAttempt(t, op[t])
         [] op[t].kind = "TimedPop"  -> TimedPopAttempt(t, op[t], pc[t] = "timedout")
         [] op[t].kind = "Peek"      -> PeekAttempt(t, op[t], pc[t] = "timedout")
         [] op[t].kind = "BatchPop"  -> BatchPopAttempt(t, op[t])
    /\ UNCHANGED <<capacity, isClose, nextVal, record>>

\* The loop of a batch Push calls Push for its next element.
BatchPushNext(t) ==
    /\ pc[t] = "batch"
    /\ BatchPushAttempt(t, op[t])
    /\ UNCHANGED <<capacity, isClose, nextVal, record>>

\* A Clear that resets the queue to the state after construction, open again.
ClearReopens(t) ==
    /\ Calls(t)
    /\ queue' = <<>>
    /\ isClose' = FALSE
    /\ pc' = NotifyAll(pc, "producer")
    /\ ret' = NoRet
    /\ pushed' = <<>>
    /\ popped' = <<>>
    /\ closeSnap' = <<>>
    /\ UNCHANGED <<capacity, op, nextVal, record>>

\* ------------------------------------------------- control ---------------
\* void Clear()
Clear(t) ==
    /\ Calls(t)
    /\ queue' = <<>>
    /\ pc' = NotifyAll(pc, "producer")
    /\ ret' = NoRet
    /\ pushed' = <<>>
    /\ popped' = <<>>
    /\ closeSnap' = <<>>
    /\ UNCHANGED <<capacity, isClose, op, nextVal, record>>

\* A SetCapacity that drops the elements beyond the new capacity.
SetCapacityTruncates(t) ==
    /\ Calls(t)
    /\ \E n \in 0..MaxCap :
          /\ capacity' = n
          /\ queue' = TakeFront(queue, Min(Len(queue), n))
          /\ pc' = IF SetCapacityWakes(n) THEN NotifyAll(pc, "producer") ELSE pc
    /\ ret' = NoRet
    /\ UNCHANGED <<isClose, op, nextVal, hist, record>>

\* void SetCapacity(size_t newCapacity)
SetCapacity(t) ==
    /\ Calls(t)
    /\ \E n \in 0..MaxCap :
          /\ capacity' = n
          /\ pc' = IF SetCapacityWakes(n) THEN NotifyAll(pc, "producer") ELSE pc
    /\ ret' = NoRet
    /\ UNCHANGED <<queue, isClose, op, nextVal, hist, record>>

\* A Close that flips the flag: the second one opens the queue again.
CloseToggles(t) ==
    /\ Calls(t)
    /\ isClose' = ~isClose
    /\ closeSnap' = IF isClose \/ ~record THEN closeSnap ELSE queue
    /\ pc' = [pc EXCEPT ![t] = "notifyP"]
    /\ op' = [op EXCEPT ![t] = [kind |-> "Close", items |-> <<>>, max |-> 0]]
    /\ ret' = NoRet
    /\ UNCHANGED <<queue, capacity, nextVal, pushed, popped, record>>

\* void Close(), the block under the lock_guard
Close(t) ==
    /\ Calls(t)
    /\ isClose' = TRUE
    /\ closeSnap' = IF isClose \/ ~record THEN closeSnap ELSE queue
    /\ pc' = [pc EXCEPT ![t] = "notifyP"]
    /\ op' = [op EXCEPT ![t] = [kind |-> "Close", items |-> <<>>, max |-> 0]]
    /\ ret' = NoRet
    /\ UNCHANGED <<queue, capacity, nextVal, pushed, popped, record>>

\* void Flush()
Flush(t) ==
    /\ Calls(t)
    /\ pc' \in NotifyOne(pc, "consumer")
    /\ ret' = NoRet
    /\ UNCHANGED <<queue, capacity, isClose, op, nextVal, hist, record>>

\* void NotifyAll(), its first statement
NotifyAllCall(t) ==
    /\ Calls(t)
    /\ pc' = [NotifyAll(pc, "consumer") EXCEPT ![t] = "notifyP"]
    /\ op' = [op EXCEPT ![t] = [kind |-> "NotifyAll", items |-> <<>>, max |-> 0]]
    /\ ret' = NoRet
    /\ UNCHANGED <<queue, capacity, isClose, nextVal, hist, record>>

\* _condProducer.notify_all(), made without the lock: the first notify of
\* Close and the last statement of NotifyAll.
NotifyProducers(t) ==
    /\ pc[t] = "notifyP"
    /\ IF op[t].kind = "Close"
       THEN /\ pc' = [NotifyAll(pc, "producer") EXCEPT ![t] = "notifyC"]
            /\ ret' = NoRet
            /\ UNCHANGED op
       ELSE /\ pc' = Done(t, NotifyAll(pc, "producer"))
            /\ Finish(t)
            /\ ret' = NoRet
    /\ UNCHANGED <<queue, capacity, isClose, nextVal, hist, record>>

\* _condConsumer.notify_all(), the last statement of Close
NotifyConsumers(t) ==
    /\ pc[t] = "notifyC"
    /\ pc' = Done(t, NotifyAll(pc, "consumer"))
    /\ Finish(t)
    /\ ret' = NoRet
    /\ UNCHANGED <<queue, capacity, isClose, nextVal, hist, record>>

\* ------------------------------------------------------------- Next ------
Next ==
    \E t \in Threads :
        \/ TryPush(t) /\ UNCHANGED bufvars
        \/ Push(t) /\ UNCHANGED bufvars
        \/ TimedPush(t) /\ UNCHANGED bufvars
        \/ BatchPush(t) /\ UNCHANGED bufvars
        \/ TryPop(t) /\ UNCHANGED bufvars
        \/ Pop(t) /\ UNCHANGED bufvars
        \/ TimedPop(t) /\ UNCHANGED bufvars
        \/ Peek(t) /\ UNCHANGED bufvars
        \/ BatchPop(t) /\ UNCHANGED bufvars
        \/ Timeout(t) /\ UNCHANGED bufvars
        \/ SpuriousWake(t) /\ UNCHANGED bufvars
        \/ Resume(t) /\ UNCHANGED bufvars
        \/ BatchPushNext(t) /\ UNCHANGED bufvars
        \/ Clear(t) /\ UNCHANGED bufvars
        \/ SetCapacity(t) /\ UNCHANGED bufvars
        \/ Close(t) /\ UNCHANGED bufvars
        \/ Flush(t) /\ UNCHANGED bufvars
        \/ NotifyAllCall(t) /\ UNCHANGED bufvars
        \/ NotifyProducers(t) /\ UNCHANGED bufvars
        \/ NotifyConsumers(t) /\ UNCHANGED bufvars

Spec == Init /\ [][Next]_vars

\* The scheduler lets every runnable thread run: a thread that was unblocked
\* takes the lock again, a notify that is due is made, the loop of a batch
\* Push goes on.  No call is ever forced to start, no timeout to expire and
\* no spurious wake-up to happen.
Fairness ==
    \A t \in Threads :
        /\ WF_vars(Resume(t))
        /\ WF_vars(BatchPushNext(t))
        /\ WF_vars(NotifyProducers(t))
        /\ WF_vars(NotifyConsumers(t))

FairSpec == LiveInit /\ [][Next]_vars /\ Fairness

\* ------------------------------------------------- reads of the ends -----
\* T Front(): under the lock, throws std::runtime_error("Queue is empty") on
\* an empty queue and returns a copy of _queue.front() otherwise.  The result
\* is kept whether the histories are recorded or not.
Front(t) ==
    /\ Calls(t)
    /\ ret' = IF queue = <<>>
              THEN [op |-> "Front", res |-> "throw", out |-> <<>>]
              ELSE [op |-> "Front", res |-> "value", out |-> <<QueueFront(queue)>>]
    /\ UNCHANGED <<queue, capacity, isClose, pc, op, nextVal, hist, record>>

\* T Back(): the same with _queue.back().
Back(t) ==
    /\ Calls(t)
    /\ ret' = IF queue = <<>>
              THEN [op |-> "Back", res |-> "throw", out |-> <<>>]
              ELSE [op |-> "Back", res |-> "value", out |-> <<QueueBack(queue)>>]
    /\ UNCHANGED <<queue, capacity, isClose, pc, op, nextVal, hist, record>>

\* Every call of the class, Front and Back among them.  The two change no
\* member, so that Next goes without them.
ReadNext ==
    \/ Next
    \/ \E t \in Threads : Front(t) /\ UNCHANGED bufvars
    \/ \E t \in Threads : Back(t) /\ UNCHANGED bufvars

ReadSpec == LiveInit /\ [][ReadNext]_vars

\* ------------------------------------------------- hand-off --------------
\* One producer thread and one consumer thread on a queue nobody else uses:
\* std::thread producer([&queue]() { for (i = 1; i <= 10; ++i) queue.Push(i); })
\* beside the loop for (i = 0; i < 10; ++i) ASSERT_TRUE(queue.Pop(val)).
\* The number of values handed over.
HandOffItems == 10

Producer == 1

Consumer == 2

\* BlockQueue<int> queue(capacity), of a capacity below the number of values.
HandOffInit ==
    /\ queue = <<>>
    /\ capacity \in 0..(HandOffItems - 1)
    /\ isClose = FALSE
    /\ pc = [t \in Threads |-> "idle"]
    /\ op = [t \in Threads |-> NoOp]
    /\ ret = NoRet
    /\ nextVal = 1
    /\ pushed = <<>>
    /\ popped = <<>>
    /\ closeSnap = <<>>
    /\ record = TRUE
    /\ NoBuffer

\* queue.Push(i) for the next i of 1..HandOffItems.
ProducerPush ==
    /\ pc[Producer] = "idle"
    /\ nextVal <= HandOffItems
    /\ nextVal' = nextVal + 1
    /\ PushAttempt(Producer, [kind |-> "Push", items |-> <<nextVal>>, max |-> 0])
    /\ UNCHANGED <<capacity, isClose, record>>

\* queue.Pop(val), for the HandOffItems rounds of the loop.  The queue is
\* never closed here, so that every Pop that returns has taken an element
\* and popped counts the rounds made.
ConsumerPop ==
    /\ pc[Consumer] = "idle"
    /\ Len(popped) < HandOffItems
    /\ PopAttempt(Consumer, [kind |-> "Pop", items |-> <<>>, max |-> 0])
    /\ UNCHANGED <<capacity, isClose, nextVal, record>>

HandOffNext ==
    \/ ProducerPush /\ UNCHANGED bufvars
    \/ ConsumerPop /\ UNCHANGED bufvars
    \/ \E t \in {Producer, Consumer} : SpuriousWake(t) /\ UNCHANGED bufvars
    \/ \E t \in {Producer, Consumer} : Resume(t) /\ UNCHANGED bufvars

\* Both threads run: each goes on with its loop, and a thread that was
\* unblocked takes the lock again.
HandOffFairness ==
    /\ WF_vars(ProducerPush)
    /\ WF_vars(ConsumerPop)
    /\ \A t \in {Producer, Consumer} : WF_vars(Resume(t))

HandOffSpec == HandOffInit /\ [][HandOffNext]_vars /\ HandOffFairness

\* ------------------------------------------------- auxiliary operators ---
IsPrefix(a, b) == Len(a) <= Len(b) /\ a = SubSeq(b, 1, Len(a))

IsSuffix(a, b) == Len(a) <= Len(b) /\ a = SubSeq(b, Len(b) - Len(a) + 1, Len(b))

Elems(a) == {a[i] : i \in DOMAIN a}

BagOf(a) == [v \in Elems(a) |-> Cardinality({i \in DOMAIN a : a[i] = v})]

Blocked(t) == pc[t] \in {"wait", "woken", "timedout"}

\* ------------------------------------------------------------- claims ----
\* C1: capacity bound.  The queue starts within its capacity, and every step
\* that starts with Size() <= Capacity() and is not a SetCapacity to a value
\* below the current size ends with Size() <= Capacity().
C1_CapacityBound ==
    /\ Len(queue) <= capacity
    /\ [][(Len(queue) <= capacity /\ capacity' >= Len(queue))
            => Len(queue') <= capacity']_vars

\* C1 witness: the queue is full at the largest capacity while a producer is
\* blocked on it.
C1_Witness ==
    /\ capacity = MaxCap
    /\ Len(queue) = capacity
    /\ \E t \in Threads : pc[t] = "wait" /\ op[t].kind \in Producers

\* C2: FIFO delivery.  The values removed by pops, in order of removal, are a
\* prefix of the values pushed, in the order in which their pushes succeeded
\* (both taken since the latest Clear, hence in any execution without Clear).
C2_Fifo == IsPrefix(popped, pushed)

\* C2 witness: two values were pushed in the order 2, 1 and popped in that
\* order.
C2_Witness == pushed = <<2, 1>> /\ popped = <<2, 1>>

C4_PushFailsAfterClose ==
    (isClose /\ ret.op \in {"TryPush", "Push", "TimedPush", "BatchPush"})
        => ret.res \in {"false", "throw"}

\* C5: a return of blocking Pop.  With an element stored when the wait ends
\* it removes the head, hands it out and returns true; it returns false only
\* with the queue closed and empty, and then changes nothing.
C5_PopReturn ==
    [][ret'.op = "Pop" =>
         IF queue = <<>>
         THEN ret'.res = "false" /\ isClose /\ queue' = queue
         ELSE /\ ret'.res = "true"
              /\ ret'.out = <<Head(queue)>>
              /\ queue' = Tail(queue)]_vars

\* C5 witness: a Pop has returned true on the closed queue.
C5_Witness == isClose /\ ret.op = "Pop" /\ ret.res = "true"

\* C6: close drains then fails.  With closeSnap the n elements stored when
\* Close ran, what is stored afterwards is always the rest of closeSnap; a Pop
\* returns true with the next element of closeSnap while fewer than n have
\* been removed, and false from then on.
C6_CloseDrains ==
    [][isClose' =>
         /\ IsSuffix(queue', closeSnap')
         /\ (isClose /\ ret'.op = "Pop") =>
               IF Len(queue) > 0
               THEN /\ ret'.res = "true"
                    /\ ret'.out = <<closeSnap[Len(closeSnap) - Len(queue) + 1]>>
                    /\ Len(queue') = Len(queue) - 1
               ELSE ret'.res = "false"]_vars

\* C6 witness: Close ran with two elements stored, both have been removed, and
\* a Pop has returned false.
C6_Witness ==
    /\ isClose
    /\ Len(closeSnap) = 2
    /\ queue = <<>>
    /\ ret.op = "Pop"
    /\ ret.res = "false"

\* C7: Close releases every blocked thread.  Under fair scheduling a thread
\* that is blocked in a wait while the queue is closed returns, without any
\* timeout having to expire and without any further call.
C7_CloseReleases ==
    \A t \in Threads : (isClose /\ Blocked(t)) ~> (pc[t] = "idle")

\* C7 witness: the queue is closed and empty, Close has made its notifies, and
\* a thread that was blocked in a timed Pop is unblocked.
C7_Witness ==
    /\ isClose
    /\ queue = <<>>
    /\ \A u \in Threads : pc[u] \notin {"notifyP", "notifyC"}
    /\ \E t \in Threads : pc[t] = "woken" /\ op[t].kind = "TimedPop"

\* C8: no lost wake-up for consumers.  Under fair scheduling no thread stays
\* blocked in Pop forever while the queue stays non-empty.
C8_NoLostWakeupConsumer ==
    \A t \in Threads :
        (Blocked(t) /\ op[t].kind = "Pop" /\ queue # <<>>)
            ~> (pc[t] = "idle" \/ queue = <<>>)

\* C9: no lost wake-up for producers.  Under fair scheduling no thread stays
\* blocked in Push forever while the queue stays open with Size() < Capacity().
C9_NoLostWakeupProducer ==
    \A t \in Threads :
        (Blocked(t) /\ op[t].kind = "Push" /\ ~isClose /\ Len(queue) < capacity)
            ~> (pc[t] = "idle" \/ isClose \/ Len(queue) >= capacity)

\* C9 witness: the queue is open with room, one producer blocked in Push has
\* been unblocked and another producer is still blocked.
C9_Witness ==
    /\ ~isClose
    /\ Len(queue) < capacity
    /\ \E t, u \in Threads :
          /\ t # u
          /\ pc[t] = "woken" /\ op[t].kind = "Push"
          /\ pc[u] = "wait" /\ op[u].kind \in Producers

\* C10: no loss and no duplication.  The values pushed are, as a multiset,
\* the values handed out by pops together with the values still stored, and no
\* value is handed out twice; with the queue empty the consumed values are
\* the pushed ones.
C10_NoLossNoDup ==
    /\ BagOf(pushed) = BagOf(popped) (+) BagOf(queue)
    /\ Cardinality(Elems(popped)) = Len(popped)
    /\ queue = <<>> => BagOf(popped) = BagOf(pushed)

\* C10 witness: every value offered was pushed by a blocking Push or otherwise,
\* the open queue is empty again, and a Pop or timed Pop made the last removal.
C10_Witness ==
    /\ ~isClose
    /\ Len(pushed) = MaxItems
    /\ Len(popped) = MaxItems
    /\ queue = <<>>
    /\ ret.op \in {"Pop", "TimedPop"}
    /\ ret.res = "true"


\* =========================================================================
\* bre::Buffer (src/breutils/buffer.hpp): a std::vector<char> with a read and
\* a write cursor; kPrependSize bytes are kept free in front of the payload.
\* The Buffer has no lock: every member function is one action.
\* =========================================================================

\* ------------------------------------------------------------- bounds ----
MaxInit     == 1    \* Buffer(initialSize) with initialSize in 0..MaxInit
MaxPayload  == 2    \* the vector holds at most kPrependSize + MaxPayload bytes
MaxLen      == 1    \* longest data of an Append
MaxReserve  == 1    \* Shrink(reserve) with reserve in 0..MaxReserve
\* size_t arithmetic is modulo SizeModulus, which stands for 2^64: the
\* integers of the model checker have 32 bits.
SizeModulus == 1073741824

kPrependSize == 8

\* What callers write; appended and prepended bytes differ from each other
\* and from 0, a fresh char of the vector, so that a byte out of place shows.
AppendDatas  == {<<>>, <<1>>, <<1, 2>>}
PrependDatas == {<<>>, <<3>>, <<3, 3>>}
Huge == SizeModulus - 1             \* SIZE_MAX
MaxStorage == kPrependSize + MaxPayload

Lens == 0..(MaxLen + 1)

SizeT(n) == n % SizeModulus

\* ------------------------------------------------ std::vector, std::copy -
\* The bytes at the C++ indices [from, to) of b.
Slice(b, from, to) == SubSeq(b, from + 1, to)

\* std::copy(data, data + Len(data), b.begin() + at).
CopyShifted(b, data, at) ==
    [i \in 1..Len(b) |->
        IF i > at + 1 /\ i <= at + 1 + Len(data) THEN data[i - at - 1] ELSE b[i]]
Copy(b, data, at) ==
    [i \in 1..Len(b) |->
        IF i > at /\ i <= at + Len(data) THEN data[i - at] ELSE b[i]]

\* The range [at, at + n) lies in b (an empty range reads and writes nothing).
InBounds(b, at, n) == n = 0 \/ (at >= 0 /\ at + n <= Len(b))

\* std::vector<char>(n): n value-initialised chars.
Zeros(n) == [i \in 1..n |-> 0]

\* A resize that makes the vector one element longer than asked.
ResizeWithSpare(b, n) ==
    IF n + 1 <= Len(b) THEN SubSeq(b, 1, n + 1) ELSE b \o Zeros(n + 1 - Len(b))

\* std::vector::resize(n).
Resize(b, n) == IF n <= Len(b) THEN SubSeq(b, 1, n) ELSE b \o Zeros(n - Len(b))

\* ------------------------------------------------ the Buffer as a value --
\* The three data members; the member functions below are functions on it.
This == [buf |-> buffer, r |-> readIndex, w |-> writeIndex]

Capacity(s) == Len(s.buf)
ReadableBytes(s) == SizeT(s.w - s.r)
WritableBytes(s) == SizeT(Len(s.buf) - s.w)
PrependableBytes(s) == s.r

\* The bytes [Peek(), Peek() + ReadableBytes()).
Readable(s) == Slice(s.buf, s.r, s.w)

\* A RetrieveAll that empties the Buffer where the read cursor stands.
RetrieveAllInPlace(s) == [s EXCEPT !.w = s.r]

RetrieveAll(s) == [s EXCEPT !.r = kPrependSize, !.w = kPrependSize]

RetrieveKeepsWrite(s, len) ==
    IF len < ReadableBytes(s) THEN [s EXCEPT !.r = s.r + len]
    ELSE [s EXCEPT !.r = kPrependSize]
Retrieve(s, len) ==
    IF len < ReadableBytes(s) THEN [s EXCEPT !.r = s.r + len]
    ELSE RetrieveAll(s)

\* A HasWritten that trusts its caller.
HasWrittenUnchecked(s, len) == [s EXCEPT !.w = SizeT(s.w + len)]

HasWritten(s, len) ==
    IF len <= WritableBytes(s) THEN [s EXCEPT !.w = SizeT(s.w + len)] ELSE s

\* makeSpace: grow the vector, or move the readable bytes down to
\* kPrependSize.
MakeSpaceGrows(s, len) ==
    SizeT(WritableBytes(s) + PrependableBytes(s)) < SizeT(len + kPrependSize)

\* A makeSpace that, having grown the vector, also moves the readable bytes
\* to kPrependSize.
makeSpaceGrowsAndMoves(s, len) ==
    IF MakeSpaceGrows(s, len)
    THEN [buf |-> Copy(Resize(s.buf, SizeT(s.w + len)), Readable(s), kPrependSize),
          r   |-> kPrependSize,
          w   |-> kPrependSize + ReadableBytes(s)]
    ELSE [buf |-> Copy(s.buf, Readable(s), kPrependSize),
          r   |-> kPrependSize,
          w   |-> kPrependSize + ReadableBytes(s)]

makeSpace(s, len) ==
    IF MakeSpaceGrows(s, len)
    THEN [s EXCEPT !.buf = Resize(s.buf, SizeT(s.w + len))]
    ELSE [buf |-> Copy(s.buf, Readable(s), kPrependSize),
          r   |-> kPrependSize,
          w   |-> kPrependSize + ReadableBytes(s)]

\* std::copy is undefined when the range read or written leaves the vector,
\* or when the destination lies inside the range read.
makeSpaceDefined(s, len) ==
    \/ MakeSpaceGrows(s, len)
    \/ /\ InBounds(s.buf, s.r, ReadableBytes(s))
       /\ InBounds(s.buf, kPrependSize, ReadableBytes(s))
       /\ ~(s.r <= kPrependSize /\ kPrependSize < s.w)

EnsureNeedsSpace(s, len) == WritableBytes(s) < len

EnsureWritableBytes(s, len) ==
    IF EnsureNeedsSpace(s, len) THEN makeSpace(s, len) ELSE s

EnsureDefined(s, len) == EnsureNeedsSpace(s, len) => makeSpaceDefined(s, len)

\* Append(data, len): EnsureWritableBytes, std::copy to BeginWrite(),
\* HasWritten.
AppendData(s, data) ==
    LET e == EnsureWritableBytes(s, Len(data))
    IN  HasWritten([e EXCEPT !.buf = Copy(e.buf, data, e.w)], Len(data))

AppendDefined(s, data) ==
    /\ EnsureDefined(s, Len(data))
    /\ InBounds(EnsureWritableBytes(s, Len(data)).buf,
                EnsureWritableBytes(s, Len(data)).w, Len(data))

PrependThrows(s, len) == len > PrependableBytes(s)

PrependAfter(s, data) ==
    [s EXCEPT !.r = s.r - Len(data),
              !.buf = Copy(s.buf, data, s.r)]
Prepend(s, data) ==
    [s EXCEPT !.r = s.r - Len(data),
              !.buf = Copy(s.buf, data, s.r - Len(data))]

PrependDefined(s, data) == InBounds(s.buf, s.r - Len(data), Len(data))

\* A Shrink that resets _readIndex before it computes _writeIndex from
\* ReadableBytes().
ShrinkResetsReadFirst(s, reserve) ==
    [buf |-> Copy(Zeros(kPrependSize + ReadableBytes(s) + reserve),
                  Readable(s), kPrependSize),
     w   |-> kPrependSize + SizeT(s.w - kPrependSize),
     r   |-> kPrependSize]

\* Shrink(reserve): a new vector with the readable bytes at kPrependSize.
Shrink(s, reserve) ==
    [buf |-> Copy(Zeros(kPrependSize + ReadableBytes(s) + reserve),
                  Readable(s), kPrependSize),
     w   |-> kPrependSize + ReadableBytes(s),
     r   |-> kPrependSize]

ShrinkDefined(s) == s.r <= s.w /\ InBounds(s.buf, s.r, ReadableBytes(s))

\* RetrieveAsString(len): the clamped length, the string, the buffer after.
ClampNot(s, len) == len
Clamp(s, len) == IF len > ReadableBytes(s) THEN ReadableBytes(s) ELSE len

AsString(s, len) == Slice(s.buf, s.r, s.r + Clamp(s, len))

RetrieveAsString(s, len) == Retrieve(s, Clamp(s, len))

AsStringDefined(s, len) == InBounds(s.buf, s.r, Clamp(s, len))

\* A range test that forgets the upper end of the span.
UntilInRangeNoUpper(s, e) == e >= s.r

\* RetrieveUntil(end), end = begin() + e.
UntilInRange(s, e) == e >= s.r /\ e <= s.w

RetrieveUntil(s, e) == IF UntilInRange(s, e) THEN Retrieve(s, e - s.r) ELSE s

\* What a call leaves of the bytes still to be read.
Drop(c, n) == SubSeq(c, Min(n, Len(c)) + 1, Len(c))

\* ------------------------------------------------------------- actions ---
Becomes(s) ==
    /\ buffer' = s.buf
    /\ readIndex' = s.r
    /\ writeIndex' = s.w

Returns(kind, len, data, res, out) ==
    bret' = [op |-> kind, len |-> len, data |-> data, res |-> res, out |-> out]

\* A call whose behaviour is undefined ends the program.
Undefined(kind, len, data) ==
    /\ Returns(kind, len, data, "undefined", <<>>)
    /\ UNCHANGED <<buffer, readIndex, writeIndex, content>>

Alive == bret.res # "undefined"

\* The vector stays within the storage the model gives it.
Fits(s) == Len(s.buf) <= MaxStorage

\* No BlockQueue: the state of the queue variables while the Buffer runs.
NoQueue ==
    /\ queue = <<>>
    /\ capacity = 0
    /\ isClose = FALSE
    /\ pc = [t \in Threads |-> "idle"]
    /\ op = [t \in Threads |-> NoOp]
    /\ ret = NoRet
    /\ nextVal = 1
    /\ pushed = <<>>
    /\ popped = <<>>
    /\ closeSnap = <<>>
    /\ record = FALSE

\* Buffer(initialSize).
BufferInit ==
    /\ \E n \in 0..MaxInit : buffer = Zeros(kPrependSize + n)
    /\ readIndex = kPrependSize
    /\ writeIndex = kPrependSize
    /\ content = <<>>
    /\ bret = NoCall
    /\ NoQueue

CallRetrieve(len) ==
    /\ Alive
    /\ Becomes(Retrieve(This, len))
    /\ content' = Drop(content, len)
    /\ Returns("Retrieve", len, <<>>, "void", <<>>)

\* HasRead(len) is Retrieve(len).
CallHasRead(len) ==
    /\ Alive
    /\ Becomes(Retrieve(This, len))
    /\ content' = Drop(content, len)
    /\ bret' = NoCall

CallRetrieveUntil(e) ==
    /\ Alive
    /\ Becomes(RetrieveUntil(This, e))
    /\ content' = IF UntilInRange(This, e) THEN Drop(content, e - readIndex)
                  ELSE content
    /\ Returns("RetrieveUntil", e, <<>>, "void", <<>>)

CallRetrieveAll ==
    /\ Alive
    /\ Becomes(RetrieveAll(This))
    /\ content' = <<>>
    /\ bret' = NoCall

CallRetrieveAsString(len) ==
    /\ Alive
    /\ IF AsStringDefined(This, len)
       THEN /\ Becomes(RetrieveAsString(This, len))
            /\ content' = Drop(content, len)
            /\ Returns("RetrieveAsString", len, <<>>, "value",
                       AsString(This, len))
       ELSE Undefined("RetrieveAsString", len, <<>>)

\* RetrieveAllAsString() is RetrieveAsString(ReadableBytes()).
CallRetrieveAllAsString ==
    /\ Alive
    /\ IF AsStringDefined(This, ReadableBytes(This))
       THEN /\ Becomes(RetrieveAsString(This, ReadableBytes(This)))
            /\ content' = <<>>
            /\ bret' = NoCall
       ELSE Undefined("RetrieveAllAsString", ReadableBytes(This), <<>>)

CallAppend(data) ==
    /\ Alive
    /\ IF AppendDefined(This, data)
       THEN /\ Fits(AppendData(This, data))
            /\ Becomes(AppendData(This, data))
            /\ content' = content \o data
            /\ Returns("Append", Len(data), data, "void", <<>>)
       ELSE Undefined("Append", Len(data), data)

CallEnsureWritableBytes(len) ==
    /\ Alive
    /\ IF EnsureDefined(This, len)
       THEN /\ Fits(EnsureWritableBytes(This, len))
            /\ Becomes(EnsureWritableBytes(This, len))
            /\ content' = content
            /\ Returns("EnsureWritableBytes", len, <<>>, "void", <<>>)
       ELSE Undefined("EnsureWritableBytes", len, <<>>)

\* HasWritten(len) hands the next len bytes of the vector to the reader.
CallHasWritten(len) ==
    /\ Alive
    /\ HasWritten(This, len).w <= MaxStorage
    /\ Becomes(HasWritten(This, len))
    /\ content' = IF len <= WritableBytes(This)
                     /\ InBounds(buffer, writeIndex, len)
                  THEN content \o Slice(buffer, writeIndex, writeIndex + len)
                  ELSE content
    /\ bret' = NoCall

CallPrepend(data) ==
    /\ Alive
    /\ IF PrependThrows(This, Len(data))
       THEN /\ UNCHANGED <<buffer, readIndex, writeIndex, content>>
            /\ Returns("Prepend", Len(data), data, "throw", <<>>)
       ELSE IF PrependDefined(This, data)
       THEN /\ Becomes(Prepend(This, data))
            /\ content' = data \o content
            /\ Returns("Prepend", Len(data), data, "void", <<>>)
       ELSE Undefined("Prepend", Len(data), data)

CallShrink(reserve) ==
    /\ Alive
    /\ IF ShrinkDefined(This)
       THEN /\ Fits(Shrink(This, reserve))
            /\ Becomes(Shrink(This, reserve))
            /\ content' = content
            /\ bret' = NoCall
       ELSE Undefined("Shrink", reserve, <<>>)

\* Buffer(Buffer&& other) or operator=(Buffer&& other) with this Buffer as
\* other: its vector is moved away, which leaves it empty, and its cursors
\* are set to kPrependSize.
MovedFrom ==
    /\ Alive
    /\ Becomes([buf |-> <<>>, r |-> kPrependSize, w |-> kPrependSize])
    /\ content' = <<>>
    /\ bret' = NoCall

\* operator=(Buffer&& other) on this Buffer, other being a new Buffer(n).
MoveAssigned(n) ==
    /\ Alive
    /\ Becomes([buf |-> Zeros(kPrependSize + n), r |-> kPrependSize,
                w |-> kPrependSize])
    /\ content' = <<>>
    /\ bret' = NoCall

\* ------------------------------------------------------------- Next ------
\* The member functions, called with lengths that storage can have (and
\* SIZE_MAX where the function only compares the length).
BufferNext ==
    \/ \E len \in Lens \cup {Huge} : CallRetrieve(len) /\ UNCHANGED vars
    \/ \E len \in Lens \cup {Huge} : CallHasRead(len) /\ UNCHANGED vars
    \/ \E e \in 0..MaxStorage : CallRetrieveUntil(e) /\ UNCHANGED vars
    \/ CallRetrieveAll /\ UNCHANGED vars
    \/ \E len \in Lens \cup {Huge} : CallRetrieveAsString(len) /\ UNCHANGED vars
    \/ CallRetrieveAllAsString /\ UNCHANGED vars
    \/ \E data \in AppendDatas : CallAppend(data) /\ UNCHANGED vars
    \/ \E len \in Lens : CallEnsureWritableBytes(len) /\ UNCHANGED vars
    \/ \E len \in Lens \cup {Huge} : CallHasWritten(len) /\ UNCHANGED vars
    \/ \E data \in PrependDatas : CallPrepend(data) /\ UNCHANGED vars
    \/ \E reserve \in 0..MaxReserve : CallShrink(reserve) /\ UNCHANGED vars

BufferSpec == BufferInit /\ [][BufferNext]_bufvars

\* The same with the move operations.
BufferMoveNext ==
    \/ BufferNext
    \/ MovedFrom /\ UNCHANGED vars
    \/ \E n \in 0..MaxInit : MoveAssigned(n) /\ UNCHANGED vars

BufferMoveSpec == BufferInit /\ [][BufferMoveNext]_bufvars

\* A writer that also asks EnsureWritableBytes for a length near SIZE_MAX,
\* and a reader.
BufferWideNext ==
    \/ \E data \in AppendDatas : CallAppend(data) /\ UNCHANGED vars
    \/ \E data \in PrependDatas : CallPrepend(data) /\ UNCHANGED vars
    \/ \E len \in Lens \cup {Huge} :
           CallEnsureWritableBytes(len) /\ UNCHANGED vars
    \/ \E len \in Lens : CallRetrieve(len) /\ UNCHANGED vars

BufferWideSpec == BufferInit /\ [][BufferWideNext]_bufvars

\* ------------------------------------------------- searching -------------
\* '\r' and '\n', and a char that is neither.
CR == 13

LF == 10

Other == 7

\* What the callers of the search functions write.
FindDatas == {<<CR>>, <<LF>>, <<Other>>}

FindPrependDatas == {<<CR, LF>>}

\* nullptr, which is no offset into the vector.
Null == 0 - 1

\* for (p = start; p + 1 < end; ++p) if (p[0] == '\r' && p[1] == '\n') return p;
\* return nullptr;
RECURSIVE FindCRLFLoop(_, _, _)
FindCRLFLoop(b, p, end) ==
    IF p + 1 < end
    THEN IF b[p + 1] = CR /\ b[p + 2] = LF THEN p
         ELSE FindCRLFLoop(b, p + 1, end)
    ELSE Null

\* const char* FindCRLF() const
FindCRLF(s) == FindCRLFLoop(s.buf, s.r, s.w)

\* A FindCRLF(start) that searches from wherever start points.
FindCRLFFromUnchecked(s, start) == FindCRLFLoop(s.buf, start, s.w)

\* const char* FindCRLF(const char* start) const
FindCRLFFrom(s, start) ==
    IF start < s.r \/ start >= s.w THEN Null
    ELSE FindCRLFLoop(s.buf, start, s.w)

\* std::string_view::find('\n') on the readable bytes: the least position
\* that holds the char, or npos.
RECURSIVE SvFind(_, _, _)
SvFind(sv, c, pos) ==
    IF pos >= Len(sv) THEN Null
    ELSE IF sv[pos + 1] = c THEN pos
    ELSE SvFind(sv, c, pos + 1)

\* const char* FindEOL() const
FindEOL(s) ==
    IF SvFind(Readable(s), LF, 0) = Null THEN Null
    ELSE s.r + SvFind(Readable(s), LF, 0)

\* The functions are const: a call returns and the Buffer is as it was.
CallFindCRLF ==
    /\ Alive
    /\ Returns("FindCRLF", 0, <<>>, "pointer", <<FindCRLF(This)>>)
    /\ UNCHANGED <<buffer, readIndex, writeIndex, content>>

CallFindCRLFFrom(start) ==
    /\ Alive
    /\ Returns("FindCRLFFrom", start, <<>>, "pointer", <<FindCRLFFrom(This, start)>>)
    /\ UNCHANGED <<buffer, readIndex, writeIndex, content>>

CallFindEOL ==
    /\ Alive
    /\ Returns("FindEOL", 0, <<>>, "pointer", <<FindEOL(This)>>)
    /\ UNCHANGED <<buffer, readIndex, writeIndex, content>>

\* A writer of lines, a reader and the searches.  start is any pointer into
\* the vector or one past its end.
FindNext ==
    \/ \E data \in FindDatas : CallAppend(data) /\ UNCHANGED vars
    \/ \E data \in FindPrependDatas : CallPrepend(data) /\ UNCHANGED vars
    \/ \E len \in 1..MaxLen : CallRetrieve(len) /\ UNCHANGED vars
    \/ CallFindCRLF /\ UNCHANGED vars
    \/ \E start \in 0..MaxStorage : CallFindCRLFFrom(start) /\ UNCHANGED vars
    \/ CallFindEOL /\ UNCHANGED vars

FindSpec == BufferInit /\ [][FindNext]_bufvars

\* ------------------------------------------------- moves, both sides -----
\* A destination that takes the vector and starts with fresh cursors.
MoveToResetsCursors(s) == [buf |-> s.buf, r |-> kPrependSize, w |-> kPrependSize]

\* What the destination of a move holds: _buffer(std::move(other._buffer)),
\* _readIndex(other._readIndex), _writeIndex(other._writeIndex).
MoveTo(s) == [buf |-> s.buf, r |-> s.r, w |-> s.w]

\* What the source is left with: its vector moved away, other._readIndex =
\* other._writeIndex = kPrependSize.
MoveFrom(s) == [buf |-> <<>>, r |-> kPrependSize, w |-> kPrependSize]

\* Buffer dest(std::move(*this)): the program goes on with dest; the call
\* record keeps what ReadableBytes() of the source is afterwards.
MoveConstruct ==
    /\ Alive
    /\ Becomes(MoveTo(This))
    /\ content' = content
    /\ Returns("MoveConstruct", ReadableBytes(MoveFrom(This)), <<>>, "void", <<>>)

\* dest = std::move(*this) for another Buffer dest, whatever it held, and
\* for dest being this Buffer itself, which the test this != &other leaves
\* alone.
MoveAssign(self) ==
    /\ Alive
    /\ IF self
       THEN /\ UNCHANGED <<buffer, readIndex, writeIndex, content>>
            /\ Returns("MoveAssignSelf", ReadableBytes(This), <<>>, "void", <<>>)
       ELSE /\ Becomes(MoveTo(This))
            /\ content' = content
            /\ Returns("MoveAssign", ReadableBytes(MoveFrom(This)), <<>>, "void", <<>>)

BufferTransferNext ==
    \/ BufferNext
    \/ MoveConstruct /\ UNCHANGED vars
    \/ \E self \in BOOLEAN : MoveAssign(self) /\ UNCHANGED vars

BufferTransferSpec == BufferInit /\ [][BufferTransferNext]_bufvars

\* ------------------------------------------------- claims on the Buffer --
\* C11: the cursors of every Buffer, one that was the source or the
\* destination of a move included, satisfy
\* 0 <= readIndex <= writeIndex <= Capacity().
C11_CursorInvariant ==
    /\ 0 <= readIndex
    /\ readIndex <= writeIndex
    /\ writeIndex <= Capacity(This)

\* C12: the readable bytes are the bytes appended at the back and prepended
\* at the front that have not been retrieved from the front, in that order,
\* and ReadableBytes() is their number.
C12_ByteFifo ==
    /\ InBounds(buffer, readIndex, ReadableBytes(This))
    /\ Readable(This) = content
    /\ ReadableBytes(This) = Len(content)

\* Bytes of two Appends are readable, in the order appended, after the vector
\* has grown, a byte has been retrieved and the rest has been moved down.
C12_Witness ==
    /\ content = <<2, 1>>
    /\ readIndex = kPrependSize
    /\ Capacity(This) = MaxStorage
    /\ bret.op = "Append"

\* C13: RetrieveAsString(k) right after an Append(X) that found no readable
\* byte returns: exactly X if k = len(X); the first k bytes of X, leaving the
\* other len(X) - k bytes readable, if k < len(X); and whenever k exceeds
\* ReadableBytes() it returns all readable bytes.
C13_RoundTrip ==
    [][ bret'.op = "RetrieveAsString" =>
          /\ bret'.res = "value"
          /\ bret'.len > ReadableBytes(This) => bret'.out = Readable(This)
          /\ (bret.op = "Append" /\ ReadableBytes(This) = Len(bret.data)) =>
                /\ bret'.len = Len(bret.data) => bret'.out = bret.data
                /\ bret'.len < Len(bret.data) =>
                      /\ bret'.out = SubSeq(bret.data, 1, bret'.len)
                      /\ Readable(This)' =
                            SubSeq(bret.data, bret'.len + 1, Len(bret.data))
                      /\ ReadableBytes(This)' = Len(bret.data) - bret'.len
                /\ bret'.len > Len(bret.data) => bret'.out = bret.data
      ]_bufvars

\* RetrieveAsString(1) has returned the first byte of the two appended to an
\* empty Buffer, the second is still readable.
C13_Witness ==
    /\ bret.op = "RetrieveAsString"
    /\ bret.len = 1
    /\ bret.out = <<1>>
    /\ content = <<2>>
    /\ Readable(This) = <<2>>

\* C14: Retrieve(len) returns normally.  With len < ReadableBytes() it adds
\* len to readIndex and leaves writeIndex and the vector alone; otherwise it
\* sets both cursors to kPrependSize, so that nothing is readable; with
\* nothing readable before the call it changes nothing, whatever len is.
C14_RetrieveClamps ==
    [][ bret'.op = "Retrieve" =>
          /\ bret'.res = "void"
          /\ buffer' = buffer
          /\ bret'.len < ReadableBytes(This) =>
                /\ readIndex' = readIndex + bret'.len
                /\ writeIndex' = writeIndex
                /\ WritableBytes(This)' = WritableBytes(This)
          /\ bret'.len >= ReadableBytes(This) =>
                /\ readIndex' = kPrependSize
                /\ writeIndex' = kPrependSize
                /\ ReadableBytes(This)' = 0
          /\ ReadableBytes(This) = 0 =>
                UNCHANGED <<buffer, readIndex, writeIndex>>
      ]_bufvars

\* Retrieve(1) has advanced the read cursor past the first of two bytes.
C14_Witness ==
    /\ bret.op = "Retrieve"
    /\ bret.len = 1
    /\ readIndex = kPrependSize + 1
    /\ writeIndex = kPrependSize + 2
    /\ content = <<2>>

\* C15: when EnsureWritableBytes(len) returns, and inside Append before the
\* copy, WritableBytes() >= len holds and the readable bytes and their number
\* are what they were before the call.
C15_EnsureWritable ==
    [][ /\ bret'.op = "EnsureWritableBytes" =>
              /\ bret'.res = "void"
              /\ WritableBytes(This)' >= bret'.len
              /\ ReadableBytes(This)' = ReadableBytes(This)
              /\ Readable(This)' = Readable(This)
        /\ (bret'.op = "Append" /\ bret'.res = "void") =>
              LET e == EnsureWritableBytes(This, bret'.len)
              IN  /\ WritableBytes(e) >= bret'.len
                  /\ ReadableBytes(e) = ReadableBytes(This)
                  /\ Readable(e) = Readable(This)
      ]_bufvars

\* C16: Prepend(data, len) with len <= PrependableBytes() moves readIndex
\* back by len and puts the len bytes right in front of the bytes that were
\* readable; with len > PrependableBytes() it throws and leaves the cursors
\* and the vector (so Capacity() and the readable bytes) as they were.
C16_Prepend ==
    [][ bret'.op = "Prepend" =>
          /\ Len(bret'.data) <= PrependableBytes(This) =>
                /\ bret'.res = "void"
                /\ readIndex' = readIndex - Len(bret'.data)
                /\ writeIndex' = writeIndex
                /\ Capacity(This)' = Capacity(This)
                /\ Readable(This)' = bret'.data \o Readable(This)
          /\ Len(bret'.data) > PrependableBytes(This) =>
                /\ bret'.res = "throw"
                /\ UNCHANGED <<buffer, readIndex, writeIndex>>
      ]_bufvars

\* A Prepend of two bytes has thrown with one byte of room in front of the
\* bytes put there by earlier calls of Prepend and by an Append.
C16_Witness ==
    /\ bret.op = "Prepend"
    /\ bret.res = "throw"
    /\ bret.data = <<3, 3>>
    /\ readIndex = 1
    /\ Readable(This) = <<3, 3, 3, 3, 3, 3, 3, 1, 2>>

\* ------------------------------------------- further claims on the queue -
\* C17: batch Pop(dest, maxCount), when called and whenever it is resumed,
\* blocks only if the queue is open and empty; otherwise it removes exactly
\* min(maxCount, Size()) elements from the head in one step, hands them out
\* in queue order and returns (their number; 0 on a closed empty queue).
C17_BatchPop ==
    [][ \A t \in Threads :
          (\/ ret'.op = "BatchPop"
           \/ op'[t].kind = "BatchPop" /\ pc'[t] # pc[t])
          => \A m \in 0..MaxBatch :
               LET o == [kind |-> "BatchPop", items |-> <<>>, max |-> m]
                   n == Min(m, Len(queue))
               IN  (\/ Calls(t) /\ BatchPopAttempt(t, o)
                    \/ op[t] = o /\ Resume(t))
                   => IF ~isClose /\ queue = <<>>
                      THEN /\ pc'[t] = "wait"
                           /\ queue' = queue
                           /\ ret' = NoRet
                      ELSE /\ pc'[t] = "idle"
                           /\ ret'.op = "BatchPop"
                           /\ ret'.res = "count"
                           /\ Len(ret'.out) = n
                           /\ ret'.out = SubSeq(queue, 1, n)
                           /\ queue' = SubSeq(queue, n + 1, Len(queue))
      ]_vars

\* A batch Pop has handed out two elements in the order they were pushed and
\* left the queue empty.
C17_Witness ==
    /\ ret.op = "BatchPop"
    /\ ret.out = <<1, 2>>
    /\ queue = <<>>
    /\ popped = <<1, 2>>

\* C18: a batch Push of n elements that finds the queue open with
\* Size() + n <= Capacity() puts all n at the tail in range order in that
\* one step, nothing of another producer between them, and returns true.
C18_AtomicBatchPush ==
    [][ \A t \in Threads :
          (/\ ~isClose
           /\ ret'.op = "BatchPush" \/ op'[t].kind = "BatchPush"
           /\ Calls(t))
          => \A n \in 0..MaxBatch :
               LET o == [kind |-> "BatchPush", items |-> Range(nextVal, n),
                         max |-> n]
               IN  (/\ Len(queue) + n <= capacity
                    /\ nextVal' = nextVal + n
                    /\ BatchPushFirst(t, o))
                   => /\ queue' = queue \o Range(nextVal, n)
                      /\ Len(queue') = Len(queue) + n
                      /\ ret'.op = "BatchPush"
                      /\ ret'.res = "true"
                      /\ pc'[t] = "idle"
      ]_vars

\* A batch Push of two elements has filled the empty queue of capacity 2.
C18_Witness ==
    /\ ret.op = "BatchPush"
    /\ ret.res = "true"
    /\ capacity = 2
    /\ queue = <<1, 2>>
    /\ nextVal = 3
    /\ \A t \in Threads : pc[t] = "idle"

\* C20: TryPush returns in the step that calls it (every step of TryPush
\* is a return of TryPush): false, with the stored
\* sequence unchanged, if the queue is closed or Size() >= Capacity();
\* otherwise true, with the item added at the tail and Size() one larger.
C20_TryPush ==
    [][ \A t \in Threads :
          (ret'.op = "TryPush" /\ TryPush(t)) =>
              /\ pc'[t] = "idle"
              /\ ret'.op = "TryPush"
              /\ IF isClose \/ Len(queue) >= capacity
                 THEN ret'.res = "false" /\ queue' = queue
                 ELSE /\ ret'.res = "true"
                      /\ queue' = queue \o <<nextVal>>
                      /\ Len(queue') = Len(queue) + 1
      ]_vars

\* A TryPush has added the second element behind the first.
C20_Witness ==
    /\ ret.op = "TryPush"
    /\ ret.res = "true"
    /\ queue = <<1, 2>>

\* size_t pushedCount = queue.Push(first, last): the bool as a number.
AsCount(res) == IF res = "true" THEN 1 ELSE 0

\* How many of the values first..last the history of pushes holds.
Enqueued(h, first, last) ==
    Cardinality({i \in 1..Len(h) : h[i] >= first /\ h[i] <= last})

\* C19: a batch Push of a range that did not fit returns the number of
\* elements it has enqueued.
C19_BatchPushCount ==
    [][ \A t \in Threads :
          (/\ ret'.op = "BatchPush"
           /\ ret'.res = "true"
           /\ op[t].kind = "BatchPush"
           /\ pc[t] \in {"batch", "woken"}
           /\ pc'[t] = "idle"
           /\ pushed' = pushed \o op[t].items)
          => AsCount(ret'.res) =
                Enqueued(pushed', Head(op[t].items) - op[t].max + 1,
                         Head(op[t].items))
      ]_vars

\* ------------------------------------------------- claims on single calls --
\* C21: TryPop() never blocks.  It returns the empty option and changes
\* nothing exactly when the queue holds no element, open or closed;
\* otherwise it removes the head element and returns it, also after Close().
C21_TryPop ==
    [][ \A t \in Threads :
          (ret'.op = "TryPop" /\ TryPop(t)) =>
              /\ pc'[t] = "idle"
              /\ capacity' = capacity
              /\ isClose' = isClose
              /\ IF queue = <<>>
                 THEN /\ ret'.res = "nullopt"
                      /\ queue' = queue
                      /\ pc' = pc
                      /\ hist' = hist
                 ELSE /\ ret'.res = "value"
                      /\ ret'.out = <<Head(queue)>>
                      /\ queue' = Tail(queue)
      ]_vars

\* A TryPop has taken the head of a closed queue that held two elements.
C21_Witness ==
    /\ isClose
    /\ ret.op = "TryPop"
    /\ ret.res = "value"
    /\ ret.out = <<1>>
    /\ queue = <<2>>

\* C22: a timed Push never blocks past its timeout.  It returns false and
\* leaves the stored sequence unchanged if the timeout runs out while the
\* queue is still full or if the queue is closed; it returns true exactly
\* when it has appended its item at the tail of an open queue whose size was
\* below the capacity.
C22_TimedPush ==
    [][ \A t \in Threads :
          ((pc[t] = "idle" /\ ret'.op = "TimedPush" /\ TimedPush(t))
           \/ (/\ op[t].kind = "TimedPush"
               /\ pc[t] \in {"woken", "timedout"}
               /\ Resume(t)))
          => LET item == IF pc[t] = "idle" THEN <<nextVal>> ELSE op[t].items
                 fails == /\ pc'[t] = "idle"
                          /\ ret'.op = "TimedPush"
                          /\ ret'.res = "false"
                          /\ queue' = queue
                 succeeds == /\ pc'[t] = "idle"
                             /\ ret'.op = "TimedPush"
                             /\ ret'.res = "true"
                             /\ queue' = queue \o item
             IN  /\ pc[t] = "timedout" => pc'[t] = "idle"
                 /\ (isClose \/ (pc[t] = "timedout" /\ Len(queue) >= capacity))
                        => fails
                 /\ succeeds <=> (~isClose /\ Len(queue) < capacity)
                 /\ pc'[t] # "idle" => queue' = queue
      ]_vars

\* A timed Push on an open queue has returned false: its timeout ran out
\* while the queue was full.
C22_Witness ==
    /\ ~isClose
    /\ ret.op = "TimedPush"
    /\ ret.res = "false"
    /\ capacity = 1
    /\ queue = <<1>>

\* C23: a timed Pop returns false only when the queue is empty at the moment
\* it returns: its timeout has run out on an open queue that is still empty,
\* or the queue is closed and empty.  On an open queue that stays empty it
\* goes on waiting until the timeout runs out.  If an element is stored when
\* its wait ends it removes the head and returns true.
C23_TimedPop ==
    [][ \A t \in Threads :
          ((op'[t].kind = "TimedPop" \/ ret'.op = "TimedPop")
           /\ ((pc[t] = "idle" /\ TimedPop(t))
               \/ (/\ op[t].kind = "TimedPop"
                   /\ pc[t] \in {"woken", "timedout"}
                   /\ Resume(t))))
          => /\ (ret'.op = "TimedPop" /\ ret'.res = "false")
                    => /\ queue = <<>>
                       /\ queue' = <<>>
                       /\ isClose \/ pc[t] = "timedout"
             /\ queue # <<>>
                    => /\ pc'[t] = "idle"
                       /\ ret'.op = "TimedPop"
                       /\ ret'.res = "true"
                       /\ ret'.out = <<Head(queue)>>
                       /\ queue' = Tail(queue)
             /\ (queue = <<>> /\ ~isClose /\ pc[t] # "timedout")
                    => /\ pc'[t] = "wait"
                       /\ ret'.op = "none"
                       /\ queue' = queue
             /\ (queue = <<>> /\ (isClose \/ pc[t] = "timedout"))
                    => /\ pc'[t] = "idle"
                       /\ ret'.op = "TimedPop"
                       /\ ret'.res = "false"
      ]_vars

\* A timed Pop on an open queue has returned false: its timeout ran out
\* while the queue was empty, after an element had gone through the queue.
C23_Witness ==
    /\ ~isClose
    /\ ret.op = "TimedPop"
    /\ ret.res = "false"
    /\ queue = <<>>
    /\ popped = <<1>>

\* C24: Peek waits as a timed Pop does and removes nothing.  On success it
\* copies the head element into its output and leaves the stored sequence,
\* the size, the capacity and the closed flag as they were; it returns
\* false, changing nothing, when its timeout runs out on the empty queue or
\* when the queue is closed and empty.
C24_Peek ==
    [][ \A t \in Threads :
          ((op'[t].kind = "Peek" \/ ret'.op = "Peek")
           /\ ((pc[t] = "idle" /\ Peek(t))
               \/ (/\ op[t].kind = "Peek"
                   /\ pc[t] \in {"woken", "timedout"}
                   /\ Resume(t))))
          => /\ queue' = queue
             /\ Len(queue') = Len(queue)
             /\ capacity' = capacity
             /\ isClose' = isClose
             /\ hist' = hist
             /\ \A u \in Threads \ {t} : pc'[u] = pc[u]
             /\ queue # <<>>
                    => /\ pc'[t] = "idle"
                       /\ ret'.op = "Peek"
                       /\ ret'.res = "true"
                       /\ ret'.out = <<Head(queue)>>
             /\ (queue = <<>> /\ (isClose \/ pc[t] = "timedout"))
                    => /\ pc'[t] = "idle"
                       /\ ret'.op = "Peek"
                       /\ ret'.res = "false"
                       /\ ret'.out = <<>>
             /\ (queue = <<>> /\ ~isClose /\ pc[t] # "timedout")
                    => /\ pc'[t] = "wait"
                       /\ ret'.op = "none"
      ]_vars

\* A Peek has shown the head of a queue of two elements, which still holds
\* both.
C24_Witness ==
    /\ ret.op = "Peek"
    /\ ret.res = "true"
    /\ ret.out = <<1>>
    /\ queue = <<1, 2>>
    /\ popped = <<>>

\* C25: Front() and Back() never block and never modify the queue.  On a
\* non-empty queue they return the oldest and the most recently enqueued
\* stored element; on an empty queue, open or closed, they fail with the
\* empty-queue runtime error.
C25_FrontBack ==
    [][ \A t \in Threads :
          (ret'.op \in {"Front", "Back"} /\ (Front(t) \/ Back(t)))
          => /\ UNCHANGED <<queue, capacity, isClose, pc, op>>
             /\ IF queue = <<>>
                THEN ret'.res = "throw" /\ ret'.out = <<>>
                ELSE /\ ret'.res = "value"
                     /\ ret'.op = "Front" => ret'.out = <<queue[1]>>
                     /\ ret'.op = "Back" => ret'.out = <<queue[Len(queue)]>>
      ]_vars

\* Back() has returned the second of two stored elements of a closed queue.
C25_Witness ==
    /\ isClose
    /\ ret.op = "Back"
    /\ ret.res = "value"
    /\ ret.out = <<2>>
    /\ queue = <<1, 2>>

\* The calls that add elements.
PushKinds == {"TryPush", "Push", "TimedPush", "BatchPush"}

\* The step is a batch Push of an empty range, which has no element to add:
\* it takes no value and returns at once.
EmptyRangePush ==
    /\ ret'.op = "BatchPush"
    /\ nextVal' = nextVal
    /\ \A t \in Threads : op[t].kind = "BatchPush" => op'[t].kind = "BatchPush"

\* C26: Clear() removes all stored elements in one step and leaves the
\* capacity and the closed flag as they were: right after it the size is 0
\* and the queue is empty.  On a closed queue a push of an element still
\* fails after Clear().
C26_Clear ==
    [][ /\ \A t \in Threads :
             (pc[t] = "idle" /\ ret'.op = "none" /\ nextVal' = nextVal /\ Clear(t))
             => /\ queue' = <<>>
                /\ Len(queue') = 0
                /\ capacity' = capacity
                /\ isClose' = isClose
        /\ (/\ ret'.op \in PushKinds
            /\ isClose
            /\ queue = <<>> /\ pushed = <<>> /\ popped = <<>> /\ closeSnap = <<>>
            /\ ~EmptyRangePush)
           => /\ ret'.res \in {"false", "throw"}
              /\ queue' = <<>>
      ]_vars

\* A TryPush has failed on a closed queue that Clear() has emptied: a batch
\* Push had stored the first element of its range, of which neither the
\* queue nor the histories since the Clear() show a trace.
C26_Witness ==
    /\ isClose
    /\ capacity = 1
    /\ queue = <<>>
    /\ pushed = <<>>
    /\ popped = <<>>
    /\ \E t \in Threads :
          op[t] = [kind |-> "BatchPush", items |-> <<2>>, max |-> 2]
    /\ ret.op = "TryPush"
    /\ ret.res = "false"

\* C27: SetCapacity(n) sets the capacity and neither removes nor reorders
\* stored elements nor changes the closed flag, also when n is below the
\* current size.  On an open queue whose size is at least the capacity every
\* push of an element fails or blocks, and TryPush succeeds again as soon as
\* the capacity has been raised above the size.
C27_SetCapacity ==
    [][ /\ \A t \in Threads :
             (pc[t] = "idle" /\ ret'.op = "none" /\ nextVal' = nextVal /\ SetCapacity(t))
             => /\ capacity' \in 0..MaxCap
                /\ queue' = queue
                /\ isClose' = isClose
                /\ hist' = hist
        /\ (~isClose /\ Len(queue) >= capacity)
           => /\ queue' = queue \/ Len(queue') < Len(queue)
              /\ (ret'.op \in PushKinds /\ ~EmptyRangePush)
                    => ret'.res \in {"false", "throw"}
        /\ (ret'.op = "TryPush" /\ ~isClose /\ Len(queue) < capacity)
           => /\ ret'.res = "true"
              /\ queue' = queue \o <<nextVal>>
      ]_vars

\* With all threads idle and no Clear() or Pop since, the open queue holds 1
\* and 3 at capacity 2: TryPush(2) was refused while the capacity was 1, and
\* TryPush(3) succeeded once the capacity had been raised to 2.
C27_Witness ==
    /\ ~isClose
    /\ capacity = 2
    /\ queue = <<1, 3>>
    /\ pushed = <<1, 3>>
    /\ popped = <<>>
    /\ \A t \in Threads : pc[t] = "idle"
    /\ ret.op = "TryPush"
    /\ ret.res = "true"

\* C28: the closed flag is one-way and Close() is idempotent.  Once the
\* queue is closed it stays closed under every later operation, and a second
\* Close() changes neither the stored elements nor the capacity nor the flag.
C28_CloseOneWay ==
    [][ /\ isClose => isClose'
        /\ \A t \in Threads :
             (/\ pc[t] = "idle"
              /\ pc'[t] = "notifyP"
              /\ op'[t].kind = "Close"
              /\ Close(t))
             => /\ isClose'
                /\ queue' = queue
                /\ capacity' = capacity
                /\ isClose => hist' = hist
        /\ \A t \in Threads :
             (op[t].kind = "Close" /\ pc[t] \in {"notifyP", "notifyC"})
             => (pc'[t] # pc[t] => UNCHANGED <<queue, capacity, isClose>>)
      ]_vars

\* Two calls of Close() are under way at once on a queue that holds an
\* element: the later of them found the queue closed.
C28_Witness ==
    /\ isClose
    /\ queue = <<1>>
    /\ \E t, u \in Threads :
          /\ t # u
          /\ op[t].kind = "Close"
          /\ op[u].kind = "Close"

\* Both loops have ended: every value was pushed, the consumer has received
\* 1..HandOffItems in this order and the queue is empty.
HandOffDone ==
    /\ pc[Producer] = "idle"
    /\ pc[Consumer] = "idle"
    /\ nextVal = HandOffItems + 1
    /\ popped = Range(1, HandOffItems)
    /\ queue = <<>>

\* C29 as stated: on a queue of any capacity below the number of values the
\* hand-off of one producer and one consumer terminates under fair
\* scheduling: every Pop returns true, the consumer receives exactly the
\* values in order and the queue ends empty.
C29_HandOffAnyCapacity ==
    /\ <>HandOffDone
    /\ [](ret.op = "Pop" => ret.res = "true")

\* C29: on a queue whose capacity is at least 1 and below the number of
\* values the hand-off of one producer and one consumer terminates under fair
\* scheduling: every Pop returns true, the consumer receives exactly the
\* values in order and the queue ends empty.
C29_HandOff ==
    /\ (capacity >= 1 /\ capacity < HandOffItems) ~> HandOffDone
    /\ [](ret.op = "Pop" => ret.res = "true")

\* The hand-off through a queue of capacity 5 has ended.
C29_Witness ==
    /\ HandOffDone
    /\ capacity = 5
    /\ ret.op = "Pop"
    /\ ret.res = "true"
    /\ ret.out = <<HandOffItems>>

\* The calls that take or show elements after a wait.
WaitingPopKinds == {"Pop", "TimedPop", "BatchPop", "Peek"}

\* C30: Flush() and NotifyAll() change no queue state (stored elements,
\* capacity, closed flag), and a thread that was unblocked while its wait
\* condition is still false goes back to waiting: no Pop, timed Pop, batch
\* Pop or Peek returns an element from an empty queue, and no Push or timed
\* Push enqueues into a full or a closed queue.
C30_WakeUps ==
    [][ /\ \/ UNCHANGED <<queue, capacity, isClose, hist>>
           \/ \A t \in Threads :
                 /\ ~Flush(t)
                 /\ ~NotifyAllCall(t)
                 /\ ~(op[t].kind = "NotifyAll" /\ NotifyProducers(t))
        /\ \A t \in Threads :
             (pc[t] = "woken" /\ pc'[t] # "woken")
             => /\ (/\ op[t].kind \in WaitingPopKinds
                    /\ ~isClose
                    /\ queue = <<>>)
                   => /\ pc'[t] = "wait"
                      /\ ret'.op = "none"
                      /\ UNCHANGED <<queue, hist>>
                /\ (/\ op[t].kind \in {"Push", "TimedPush", "BatchPush"}
                    /\ ~isClose
                    /\ Len(queue) >= capacity)
                   => /\ pc'[t] = "wait"
                      /\ ret'.op = "none"
                      /\ UNCHANGED <<queue, hist>>
        /\ (ret'.op \in WaitingPopKinds /\ ret'.out # <<>>)
           => /\ queue # <<>>
              /\ IsPrefix(ret'.out, queue)
        /\ (ret'.op \in {"Pop", "TimedPop", "Peek"} /\ ret'.res = "true")
           => ret'.out = <<Head(queue)>>
        /\ Len(queue') > Len(queue)
           => /\ ~isClose
              /\ Len(queue) < capacity
      ]_vars

\* A NotifyAll() has unblocked the consumers and has its second notify still
\* to make; the Pop of thread 1, under way since before that call on a queue
\* nothing was ever offered to, is waiting again.
C30_Witness ==
    /\ ~isClose
    /\ queue = <<>>
    /\ nextVal = 1
    /\ op[1].kind = "Pop"
    /\ pc[1] = "wait"
    /\ op[2].kind = "NotifyAll"
    /\ pc[2] = "notifyP"

\* ------------------------------------------ further claims on the Buffer -
\* C31: Shrink(reserve) makes Capacity() exactly kPrependSize +
\* ReadableBytes() + reserve, sets readIndex to kPrependSize and writeIndex
\* to kPrependSize + ReadableBytes(), so that WritableBytes() = reserve and
\* PrependableBytes() = kPrependSize, and leaves the readable bytes as they
\* were, also when readIndex was below kPrependSize after a Prepend.
C31_Shrink ==
    [][ \A reserve \in 0..MaxReserve :
          (bret'.op = "none" /\ CallShrink(reserve))
          => /\ Capacity(This)' = kPrependSize + ReadableBytes(This) + reserve
             /\ readIndex' = kPrependSize
             /\ writeIndex' = kPrependSize + ReadableBytes(This)
             /\ WritableBytes(This)' = reserve
             /\ PrependableBytes(This)' = kPrependSize
             /\ ReadableBytes(This)' = ReadableBytes(This)
             /\ Readable(This)' = Readable(This)
      ]_bufvars

\* The readable bytes begin at kPrependSize with a prepended byte, which
\* only a Shrink can bring there, in a vector with one byte of reserve.
C31_Witness ==
    /\ bret.op = "none"
    /\ readIndex = kPrependSize
    /\ Readable(This) = <<3>>
    /\ content = <<3>>
    /\ Capacity(This) = kPrependSize + 1 + 1

\* C32: RetrieveUntil(end) with end in the readable span [Peek(),
\* BeginWrite()] does what Retrieve(end - Peek()) does: with end before
\* BeginWrite() the read cursor moves to end and nothing else changes, with
\* end = BeginWrite() both cursors go to kPrependSize.  With end outside the
\* span it is a no-op that leaves both cursors, the capacity and the content
\* as they were.
C32_RetrieveUntil ==
    [][ bret'.op = "RetrieveUntil" =>
          LET e == bret'.len
          IN  /\ bret'.res = "void"
              /\ buffer' = buffer
              /\ Capacity(This)' = Capacity(This)
              /\ <<buffer', readIndex', writeIndex'>> =
                    IF e >= readIndex /\ e <= writeIndex
                    THEN IF e - readIndex < writeIndex - readIndex
                         THEN <<buffer, e, writeIndex>>
                         ELSE <<buffer, kPrependSize, kPrependSize>>
                    ELSE <<buffer, readIndex, writeIndex>>
              /\ (e >= readIndex /\ e <= writeIndex)
                    => Readable(This)' = Slice(buffer, e, writeIndex)
              /\ (e < readIndex \/ e > writeIndex)
                    => /\ Readable(This)' = Readable(This)
                       /\ content' = content
      ]_bufvars

\* RetrieveUntil with end one byte past BeginWrite() has left the readable
\* byte and the cursors alone.
C32_Witness ==
    /\ bret.op = "RetrieveUntil"
    /\ bret.len = writeIndex + 1
    /\ readIndex = kPrependSize
    /\ writeIndex = kPrependSize + 1
    /\ Readable(This) = <<1>>

\* The offsets from which a CR LF pair lies in the readable region, at or
\* after from.
PairsFrom(from) ==
    {p \in from..(writeIndex - 2) : buffer[p + 1] = CR /\ buffer[p + 2] = LF}

\* The readable offsets that hold LF.
LineEnds == {p \in readIndex..(writeIndex - 1) : buffer[p + 1] = LF}

\* The least offset of a set of offsets, or not-found.
FirstOf(S) == IF S = {} THEN Null ELSE CHOOSE p \in S : \A q \in S : p <= q

\* C33: FindCRLF() returns the position of the first CR LF pair that lies
\* entirely inside the readable region and FindEOL() that of the first LF in
\* it, or not-found when there is none, as on an empty Buffer.
\* FindCRLF(start) returns the first pair at or after start, and not-found
\* when start lies outside the readable span.  None of them changes the
\* Buffer.
C33_Find ==
    [][ /\ bret'.op \in {"FindCRLF", "FindCRLFFrom", "FindEOL"}
              => /\ UNCHANGED <<buffer, readIndex, writeIndex>>
                 /\ bret'.res = "pointer"
        /\ bret'.op = "FindCRLF"
              => /\ bret'.out = <<FirstOf(PairsFrom(readIndex))>>
                 /\ readIndex = writeIndex => bret'.out = <<Null>>
        /\ bret'.op = "FindEOL"
              => /\ bret'.out = <<FirstOf(LineEnds)>>
                 /\ readIndex = writeIndex => bret'.out = <<Null>>
        /\ bret'.op = "FindCRLFFrom"
              => IF bret'.len < readIndex \/ bret'.len > writeIndex
                 THEN bret'.out = <<Null>>
                 ELSE bret'.out = <<FirstOf(PairsFrom(bret'.len))>>
      ]_bufvars

\* FindCRLF(start), with start inside the first of two CR LF pairs, has
\* returned the position of the second.
C33_Witness ==
    /\ bret.op = "FindCRLFFrom"
    /\ Readable(This) = <<CR, LF, CR, LF>>
    /\ bret.len = readIndex + 1
    /\ bret.out = <<readIndex + 2>>

\* C34: a freshly constructed Buffer(n) has ReadableBytes() = 0,
\* WritableBytes() = n and PrependableBytes() = kPrependSize; after every
\* full reset (RetrieveAll, a Retrieve or a RetrieveAsString that consumes
\* all readable bytes) PrependableBytes() = kPrependSize again; and in every
\* reachable state ReadableBytes() = 0 implies readIndex = writeIndex =
\* kPrependSize.
C34_PrependReserve ==
    /\ /\ ReadableBytes(This) = 0
       /\ WritableBytes(This) \in 0..MaxInit
       /\ WritableBytes(This) = Capacity(This) - kPrependSize
       /\ PrependableBytes(This) = kPrependSize
    /\ [](ReadableBytes(This) = 0
            => readIndex = kPrependSize /\ writeIndex = kPrependSize)
    /\ [][ /\ (/\ bret'.op \in {"Retrieve", "RetrieveAsString"}
               /\ bret'.res # "undefined"
               /\ bret'.len >= ReadableBytes(This))
              => /\ PrependableBytes(This)' = kPrependSize
                 /\ ReadableBytes(This)' = 0
           /\ (bret'.op = "none" /\ (CallRetrieveAll \/ CallRetrieveAllAsString))
              => /\ PrependableBytes(This)' = kPrependSize
                 /\ ReadableBytes(This)' = 0
         ]_bufvars

\* A Retrieve of all readable bytes has put the read cursor back to
\* kPrependSize after a Prepend had taken the last byte of the reserve, where
\* the prepended byte still lies.
C34_Witness ==
    /\ bret.op = "Retrieve"
    /\ readIndex = kPrependSize
    /\ writeIndex = kPrependSize
    /\ buffer[kPrependSize] = 3
    /\ content = <<>>

\* C35: move construction and move assignment transfer the Buffer: the
\* destination's readable bytes and ReadableBytes() are those the source had
\* before the move, and the moved-from source reports ReadableBytes() = 0.
C35_Move ==
    [][ bret'.op \in {"MoveConstruct", "MoveAssign"} =>
          /\ ReadableBytes(This)' = ReadableBytes(This)
          /\ Readable(This)' = Readable(This)
          /\ Readable(This)' = content
          /\ bret'.len = 0
      ]_bufvars

\* A Buffer with a prepended and an appended byte, its read cursor below
\* kPrependSize, has been moved by assignment.
C35_Witness ==
    /\ bret.op = "MoveAssign"
    /\ readIndex = kPrependSize - 1
    /\ Readable(This) = <<3, 1>>
    /\ bret.len = 0


\* ------------------------------------------------- further claims on the queue
\* The elements of the range of a batch Push in its fallback loop that the
\* loop has already pushed: the range was nextVal.. at the call, o.max long.
BatchDone(o) == (Head(o.items) - (o.max - Len(o.items))) .. (Head(o.items) - 1)

C37_Growth ==
    [][ (bret'.op \in {"Append", "EnsureWritableBytes"} /\ bret'.res = "void") =>
          LET len == bret'.len IN
          /\ Capacity(This)' > Capacity(This) =>
                /\ ReadableBytes(This) + len > Capacity(This) - kPrependSize
                /\ Capacity(This)' = writeIndex + len
          /\ ReadableBytes(This) + len <= Capacity(This) - kPrependSize =>
                /\ Capacity(This)' = Capacity(This)
                /\ WritableBytes(This) < len =>
                      /\ readIndex' = kPrependSize
                      /\ writeIndex' = kPrependSize + ReadableBytes(This)
                                       + (IF bret'.op = "Append" THEN len ELSE 0)
                /\ (ReadableBytes(This) = 0 /\ bret'.op = "Append") =>
                      Readable(This)' = bret'.data
      ]_bufvars

\* An Append of one byte has moved the readable byte 2 down from index 9 to
\* kPrependSize, in a vector of kPrependSize + 2 bytes that still has a
\* prepended 3 in front, and has written behind it.
C37_Witness ==
    /\ bret.op = "Append"
    /\ buffer = <<0, 0, 0, 0, 0, 0, 0, 3, 2, 1>>
    /\ readIndex = kPrependSize
    /\ content = <<2, 1>>


\* C38: the Buffer never shrinks by itself: no call but Shrink lowers
\* Capacity() (Append, EnsureWritableBytes, HasWritten, the Retrieve family
\* and Prepend are the other calls of a Buffer that is not moved).
C38_NeverShrinks ==
    [][ (\A reserve \in 0..MaxReserve : bret'.op # "none" \/ ~CallShrink(reserve))
        => Capacity(This)' >= Capacity(This)
      ]_bufvars


\* A step is a Retrieve(len) that leaves readable bytes behind.
PartialRetrieve == bret'.op = "Retrieve" /\ bret'.len < ReadableBytes(This)

\* A step is an Append or an EnsureWritableBytes(len) that returns, len +
\* kPrependSize being a size_t.
SpaceCall ==
    /\ bret'.op \in {"Append", "EnsureWritableBytes"}
    /\ bret'.res = "void"
    /\ bret'.len <= Huge - kPrependSize

\* A step is a HasWritten.
HasWrittenCall ==
    /\ bret'.op = "none"
    /\ \E len \in Lens \cup {Huge} : CallHasWritten(len)

\* C39, as claimed: once Prepend has taken part of the reserve
\* (PrependableBytes() < kPrependSize), PrependableBytes() stays below
\* kPrependSize under partial Retrieve, Append, EnsureWritableBytes and
\* HasWritten.
C39_ReserveStaysBelow ==
    [][ (/\ PrependableBytes(This) < kPrependSize
         /\ \/ PartialRetrieve
            \/ bret'.op \in {"Append", "EnsureWritableBytes"} /\ bret'.res = "void"
            \/ HasWrittenCall)
        => PrependableBytes(This)' < kPrependSize
      ]_bufvars

\* C39, amended: with PrependableBytes() < kPrependSize, Append,
\* EnsureWritableBytes and HasWritten leave PrependableBytes() as it is; a
\* partial Retrieve(len) raises it by len, to kPrependSize or beyond if len
\* reaches that far; a Retrieve of all readable bytes and a Shrink set it to
\* kPrependSize.
C39_ReserveKept ==
    [][ PrependableBytes(This) < kPrependSize =>
          /\ (SpaceCall \/ HasWrittenCall)
                => PrependableBytes(This)' = PrependableBytes(This)
          /\ PartialRetrieve
                => PrependableBytes(This)' = PrependableBytes(This) + bret'.len
          /\ (bret'.op = "Retrieve" /\ bret'.len >= ReadableBytes(This))
                => PrependableBytes(This)' = kPrependSize
          /\ (bret'.op = "none" /\ \E reserve \in 0..MaxReserve : CallShrink(reserve))
                => PrependableBytes(This)' = kPrependSize
      ]_bufvars

\* An Append of two bytes to a Buffer whose read cursor a Prepend of two
\* bytes had lowered: the cursor is where the Prepend left it.
C39_Witness ==
    /\ bret.op = "Append"
    /\ bret.data = <<1, 2>>
    /\ PrependableBytes(This) = kPrependSize - 2
    /\ buffer = <<0, 0, 0, 0, 0, 0, 3, 3, 1, 2>>
    /\ content = <<3, 3, 1, 2>>


\* C40: HasWritten(n) with n <= WritableBytes() advances writeIndex by n, and
\* the n bytes that stood at BeginWrite() are then the last n readable bytes;
\* with n > WritableBytes() it changes neither cursor nor the vector.  So a
\* HasWritten does not carry writeIndex past Capacity().
C40_HasWritten ==
    [][ \A n \in Lens \cup {Huge} :
          (bret'.op = "none" /\ CallHasWritten(n)) =>
             /\ readIndex' = readIndex
             /\ buffer' = buffer
             /\ IF n <= WritableBytes(This)
                THEN /\ writeIndex' = SizeT(writeIndex + n)
                     /\ ReadableBytes(This)' = SizeT(ReadableBytes(This) + n)
                     /\ writeIndex <= Capacity(This) =>
                           /\ Slice(buffer', writeIndex' - n, writeIndex')
                                 = Slice(buffer, writeIndex, writeIndex + n)
                           /\ content' = content \o Slice(buffer, writeIndex, writeIndex + n)
                ELSE writeIndex' = writeIndex /\ content' = content
             /\ writeIndex <= Capacity(This) => writeIndex' <= Capacity(This)'
      ]_bufvars

\* On a Buffer(1) with a prepended byte, HasWritten(1) has made the byte of
\* the vector behind the write cursor the last readable byte.
C40_Witness ==
    /\ bret.op = "none"
    /\ buffer = <<0, 0, 0, 0, 0, 0, 0, 3, 0>>
    /\ readIndex = kPrependSize - 1
    /\ writeIndex = kPrependSize + 1
    /\ content = <<3, 0>>

=============================================================================
